---- MODULE Spec2Model ----
\* A model of the oa_evals evaluation pipeline:
\*   - the protocol-update-to-trajectory state machine (acp/builder.py), and
\*   - the harness that runs (task x trial) executions under one semaphore and
\*     aggregates the results (harness/main.py, utils/sync.py).
EXTENDS Integers, Sequences, FiniteSets, TLC

VARIABLES
    \* ---- TrajectoryBuilder (acp/builder.py) ----
    groups,       \* _groups: list of message lists, the last one is current
    tool_calls,   \* _tool_calls: dict id -> ToolCallBuilder, in insertion order
    buffers,      \* _buffers: chunk kind -> MessageBuffer.chunks
    updates,      \* _updates: the raw update log
    raised,       \* append() raised ValueError (stream consumption aborted)
    built,        \* the Trajectory returned by the latest build() call
    nbuilds,      \* number of build() calls made on this builder
    \* ---- Harness (harness/main.py) ----
    concurrency,  \* Harness.concurrency
    trail_count,  \* Harness.trail_count
    sem,          \* value of Harness._trail_sem
    pc,           \* position of every started (task, trail_idx) child task
    tgCancelled,  \* the cancel scope of run()'s task group was cancelled
    results,      \* Harness._results: task id -> list of TrailResult
    phase,        \* position of Harness.run itself
    logged,       \* what _log_completion_status reported per task
    aggpc,        \* position of every build_result child task
    aggCancelled, \* the cancel scope of _build_harness_result's task group
    taskResults,  \* the local dict `results` of _build_harness_result (insertion order)
    harnessResult, \* HarnessResult.tasks returned by run()
    \* ---- TrailRunner (task/runner.py), one trail ----
    tpc,            \* position of TrailRunner.run
    sandbox,        \* the trail's sandbox: none, built, running, stopped
    builds,         \* number of sandbox_builder.build calls
    sending,        \* updates held in ReadonlyACPClient.session_update (send.send)
    prompts,        \* number of conn.prompt calls
    promptKind,     \* Task.prompt: static or dynamic (a generator)
    concurrentGrade, \* TrailRunner.concurrent_grade
    gpc,            \* position of every run_grader call
    gradeCancelled, \* the cancel scope of the grading task group
    outcomes,       \* the local dict `outcomes` (insertion order)
    trailResult,    \* the TrailResult run() is returning
    \* ---- Harness._build_task_result ----
    graderTrails,   \* the local dict `grader_trails` (insertion order)
    answer,         \* the local `prompt` of the prompting loop in TrailRunner.run
    \* ---- pass_k (metric/builtin/pass_k.py) ----
    pk,             \* the arguments n, c, k
    pkOut,          \* the value returned, in a list that is empty before the call
    \* ---- a ToolCallBuilder on its own ----
    tracker,        \* its fields
    toolCall,       \* the ToolCalls returned by build(), oldest first
    \* ---- more of Harness and TrajectoryBuilder ----
    calls,          \* number of Harness.run calls on the one Harness
    data,           \* the TrajectoryData objects returned by build_data(), oldest first
    \* ---- a MessageBuffer on its own, an OpenAIBuilder ----
    buffer,         \* MessageBuffer.chunks
    bufOut,         \* the values returned by peek() and flush(), oldest first
    oai,            \* the OpenAIBuilder: its two flags, _messages, the Messages appended
    oaiOut          \* the lists returned by OpenAIBuilder.build(), oldest first

builderVars == <<groups, tool_calls, buffers, updates, raised, built, nbuilds>>
harnessVars == <<concurrency, trail_count, sem, pc, tgCancelled, results, phase,
                 logged, aggpc, aggCancelled, taskResults, harnessResult>>
trailCore == <<tpc, sandbox, builds, sending, prompts, promptKind, concurrentGrade,
               gpc, gradeCancelled, outcomes, trailResult, graderTrails>>
metricVars == <<pk, pkOut>>
trackerVars == <<tracker, toolCall>>
convVars == <<buffer, bufOut, oai, oaiOut>>
trailVars == <<trailCore, answer, metricVars, trackerVars, convVars, calls, data>>
vars == <<groups, tool_calls, buffers, updates, raised, built, nbuilds,
          concurrency, trail_count, sem, pc, tgCancelled, results, phase,
          logged, aggpc, aggCancelled, taskResults, harnessResult,
          tpc, sandbox, builds, sending, prompts, promptKind, concurrentGrade,
          gpc, gradeCancelled, outcomes, trailResult, graderTrails,
          answer, pk, pkOut, tracker, toolCall, calls, data,
          buffer, bufOut, oai, oaiOut>>

\* ------------------------------------------------------------------
\* Bounds of the model
\* ------------------------------------------------------------------
MaxUpdates == 4
MaxBuilds == 1
MaxTrails == 2
MaxConcurrency == 2

\* ------------------------------------------------------------------
\* Content / update model (acp/types.py, acp/schema.py)
\* ------------------------------------------------------------------
None == "none"

\* The three bufferable chunk kinds, in the insertion order of _buffers.
Kinds == <<"user", "agent", "thought">>
KindSet == {Kinds[i] : i \in 1..Len(Kinds)}

\* Text content blocks; from_content maps a TextContentBlock to TextContent
\* with the same text.
Contents == {"a", "b"}

ToolCallIds == {"t1", "t2"}
\* ToolCallStatus values used by the modelled streams; for the state machine
\* "pending" and "in_progress" behave alike, as do a start without status and
\* one that is in progress.
StartStatuses == {"in_progress", "completed"}
ProgressStatuses == {None, "completed", "failed"}
ProgressTitles == {None}

Chunk(k, c) == [type |-> k, content |-> c, id |-> None, title |-> None, status |-> None]
Start(i, st) == [type |-> "tool_call", content |-> None, id |-> i, title |-> "ls", status |-> st]
Progress(i, ti, st) == [type |-> "tool_call_update", content |-> None, id |-> i, title |-> ti, status |-> st]
Ignored == [type |-> "plan", content |-> None, id |-> None, title |-> None, status |-> None]

SessionUpdate ==
    {Chunk(k, c) : k \in KindSet, c \in Contents}
    \cup {Start(i, st) : i \in ToolCallIds, st \in StartStatuses}
    \cup {Progress(i, ti, st) : i \in ToolCallIds, ti \in ProgressTitles, st \in ProgressStatuses}
    \cup {Ignored}

\* Messages: UserMessage / AgentMessage / AgentThought carry content blocks,
\* ToolCall carries id, title and status.
MessageOf(k, chunks) ==
    [kind |-> k, content |-> chunks, id |-> None, title |-> None, status |-> None]

\* ------------------------------------------------------------------
\* MessageBuffer
\* ------------------------------------------------------------------
\* Variant of add() that overwrites the buffered chunks.
BufferAddReplacing(chunks, block) == <<block>>

BufferAdd(chunks, block) == Append(chunks, block)

\* ------------------------------------------------------------------
\* ToolCallBuilder
\* ------------------------------------------------------------------
FromStart(u) == [id |-> u.id, title |-> u.title, status |-> u.status]

Apply(t, u) ==
    [id |-> t.id,
     title |-> IF u.title # None THEN u.title ELSE t.title,
     status |-> IF u.status # None THEN u.status ELSE t.status]

BuildToolCall(t) ==
    [kind |-> "tool_call", content |-> <<>>, id |-> t.id, title |-> t.title, status |-> t.status]

IsComplete(t) == t.status \in {"completed", "failed"}

\* ------------------------------------------------------------------
\* TrajectoryBuilder
\* ------------------------------------------------------------------
EmptyBuffers == [k \in KindSet |-> <<>>]

NewBuilder ==
    [groups |-> << <<>> >>, tool_calls |-> <<>>, buffers |-> EmptyBuffers,
     updates |-> <<>>, raised |-> FALSE]

\* self._current_group.append(msg)
AppendToCurrent(g, msg) == [g EXCEPT ![Len(g)] = Append(@, msg)]

\* Variant of _start_new_group() that opens no group.
StartNewGroupMissing(g) == g

StartNewGroup(g) == Append(g, <<>>)

\* The loop of _flush_buffers over the buffers from position i on.
RECURSIVE FlushFrom(_, _, _, _)
FlushFrom(i, g, b, keep) ==
    IF i > Len(Kinds) THEN [groups |-> g, buffers |-> b]
    ELSE LET k == Kinds[i] IN
         IF k # keep /\ b[k] # <<>>
         THEN FlushFrom(i + 1, AppendToCurrent(g, MessageOf(k, b[k])),
                        [b EXCEPT ![k] = <<>>], keep)
         ELSE FlushFrom(i + 1, g, b, keep)

\* Variant of _flush_buffers() that leaves every buffer open.
FlushBuffersNothing(g, b, keep) == [groups |-> g, buffers |-> b]

FlushBuffers(g, b, keep) == FlushFrom(1, g, b, keep)

\* dict lookup: the position of id in _tool_calls, 0 when absent.
FindTracker(tc, i) ==
    IF \E n \in 1..Len(tc) : tc[n].id = i
    THEN CHOOSE n \in 1..Len(tc) : tc[n].id = i
    ELSE 0

\* Variant of the dict assignment that stores nothing.
PutTrackerDropped(tc, t) == tc

\* self._tool_calls[id] = builder: an existing key keeps its position.
PutTracker(tc, t) ==
    LET n == FindTracker(tc, t.id) IN
    IF n = 0 THEN Append(tc, t) ELSE [tc EXCEPT ![n] = t]

\* Variant of the del statement that keeps the tracker.
DelTrackerKept(tc, i) == tc

\* del self._tool_calls[id]
DelTracker(tc, i) == SelectSeq(tc, LAMBDA t : t.id # i)

\* Variant of the chunk branch that buffers the chunk without flushing.
AppendChunkUnflushed(s, u) ==
    [s EXCEPT !.buffers = [s.buffers EXCEPT ![u.type] = BufferAdd(@, u.content)]]

AppendChunk(s, u) ==
    LET f == FlushBuffers(s.groups, s.buffers, u.type) IN
    [s EXCEPT !.groups = f.groups,
              !.buffers = [f.buffers EXCEPT ![u.type] = BufferAdd(@, u.content)]]

AppendStart(s, u) ==
    LET f == FlushBuffers(s.groups, s.buffers, None) IN
    [s EXCEPT !.groups = f.groups,
              !.buffers = f.buffers,
              !.tool_calls = PutTracker(s.tool_calls, FromStart(u))]

\* Variant of the unknown-id branch that ignores the update silently.
UnknownToolCallIgnored(s) == s

\* raise ValueError(...): nothing but the flag changes here.
UnknownToolCall(s) == [s EXCEPT !.raised = TRUE]

AppendProgress(s, u) ==
    LET n == FindTracker(s.tool_calls, u.id) IN
    IF n = 0 THEN UnknownToolCall(s)
    ELSE LET t == Apply(s.tool_calls[n], u)
             tc == [s.tool_calls EXCEPT ![n] = t]
         IN IF IsComplete(t)
            THEN [s EXCEPT !.groups = StartNewGroup(AppendToCurrent(s.groups, BuildToolCall(t))),
                            !.tool_calls = DelTracker(tc, u.id)]
            ELSE [s EXCEPT !.tool_calls = tc]

\* Variant in which an update of another kind closes the open buffers.
IgnoreUpdateFlushing(s) ==
    LET f == FlushBuffers(s.groups, s.buffers, None) IN
    [s EXCEPT !.groups = f.groups, !.buffers = f.buffers]

\* An update of no matched kind (plan, available commands, current mode,
\* session info): no branch of append() is taken after the log append.
IgnoreUpdate(s) == s

\* TrajectoryBuilder.append
AppendUpdate(s, u) ==
    LET s1 == [s EXCEPT !.updates = Append(@, u)] IN
    CASE u.type \in KindSet -> AppendChunk(s1, u)
      [] u.type = "tool_call" -> AppendStart(s1, u)
      [] u.type = "tool_call_update" -> AppendProgress(s1, u)
      [] OTHER -> IgnoreUpdate(s1)

\* Variant of the loop that leaves the open tool calls out.
AppendTrackersNone(i, g, tc) == g

\* for builder in self._tool_calls.values(): self._current_group.append(builder.build())
RECURSIVE AppendTrackers(_, _, _)
AppendTrackers(i, g, tc) ==
    IF i > Len(tc) THEN g
    ELSE AppendTrackers(i + 1, AppendToCurrent(g, BuildToolCall(tc[i])), tc)

\* Variant of the filter that keeps the empty groups too.
NonEmptyGroupsAll(g) == g

\* The groups kept by build(): [... for group_messages in self._groups if group_messages]
NonEmptyGroups(g) == SelectSeq(g, LAMBDA m : m # <<>>)

\* TrajectoryBuilder.build: the builder after the call, and the Trajectory.
BuildState(s) ==
    LET f == FlushBuffers(s.groups, s.buffers, None) IN
    [s EXCEPT !.groups = AppendTrackers(1, f.groups, s.tool_calls),
              !.buffers = f.buffers]

BuildTrajectory(s) == NonEmptyGroups(BuildState(s).groups)

\* TrajectoryBuilder.build_from
RECURSIVE AppendAll(_, _, _)
AppendAll(s, us, i) ==
    IF i > Len(us) \/ s.raised THEN s
    ELSE AppendAll(AppendUpdate(s, us[i]), us, i + 1)

BuildFrom(us) == BuildTrajectory(AppendAll(NewBuilder, us, 1))

\* Trajectory.messages: the flattened view.
RECURSIVE Flatten(_)
Flatten(g) == IF g = <<>> THEN <<>> ELSE Head(g) \o Flatten(Tail(g))

\* ------------------------------------------------------------------
\* The builder as a state machine
\* ------------------------------------------------------------------
Builder ==
    [groups |-> groups, tool_calls |-> tool_calls, buffers |-> buffers,
     updates |-> updates, raised |-> raised]

SetBuilder(s) ==
    /\ groups' = s.groups
    /\ tool_calls' = s.tool_calls
    /\ buffers' = s.buffers
    /\ updates' = s.updates
    /\ raised' = s.raised

InitBuilder ==
    /\ groups = NewBuilder.groups
    /\ tool_calls = NewBuilder.tool_calls
    /\ buffers = NewBuilder.buffers
    /\ updates = NewBuilder.updates
    /\ raised = NewBuilder.raised
    /\ built = <<>>
    /\ nbuilds = 0

\* builder.append(update); once it has raised, consumption of the stream stops.
DoAppend ==
    /\ ~raised
    /\ Len(updates) < MaxUpdates
    /\ \E u \in SessionUpdate : SetBuilder(AppendUpdate(Builder, u))
    /\ UNCHANGED <<built, nbuilds>>

\* builder.build(), at any point of the stream (stream_trajectory, build_trajectory).
DoBuild ==
    /\ ~raised
    /\ nbuilds < MaxBuilds
    /\ SetBuilder(BuildState(Builder))
    /\ built' = BuildTrajectory(Builder)
    /\ nbuilds' = nbuilds + 1

InitHarnessIdle ==
    /\ concurrency = 1
    /\ trail_count = 1
    /\ sem = 1
    /\ pc = <<>>
    /\ tgCancelled = FALSE
    /\ results = <<>>
    /\ phase = "idle"
    /\ logged = <<>>
    /\ aggpc = <<>>
    /\ aggCancelled = FALSE
    /\ taskResults = <<>>
    /\ harnessResult = <<>>

\* Nothing computed by pass_k, no separate tracker, first call of run(), no
\* build_data() yet, no separate MessageBuffer and no OpenAIBuilder.
InitRestIdle ==
    /\ pk = None
    /\ pkOut = <<>>
    /\ tracker = None
    /\ toolCall = <<>>
    /\ calls = 1
    /\ data = <<>>
    /\ buffer = None
    /\ bufOut = <<>>
    /\ oai = None
    /\ oaiOut = <<>>

\* No trail is running and nothing is being aggregated.
InitTrailIdle ==
    /\ answer = None
    /\ InitRestIdle
    /\ tpc = "idle"
    /\ sandbox = None
    /\ builds = 0
    /\ sending = <<>>
    /\ prompts = 0
    /\ promptKind = "static"
    /\ concurrentGrade = FALSE
    /\ gpc = <<>>
    /\ gradeCancelled = FALSE
    /\ outcomes = <<>>
    /\ trailResult = None
    /\ graderTrails = <<>>

Init == InitBuilder /\ InitHarnessIdle /\ InitTrailIdle

Next ==
    \/ DoAppend /\ UNCHANGED <<harnessVars, trailVars>>
    \/ DoBuild /\ UNCHANGED <<harnessVars, trailVars>>

Spec == Init /\ [][Next]_vars

\* build_from: the updates are appended to a fresh builder, build() comes last.
ReplayAppend == nbuilds = 0 /\ DoAppend

NextReplay ==
    \/ ReplayAppend /\ UNCHANGED <<harnessVars, trailVars>>
    \/ DoBuild /\ UNCHANGED <<harnessVars, trailVars>>

SpecReplay == Init /\ [][NextReplay]_vars

\* ------------------------------------------------------------------
\* Properties of the trajectory state machine
\* ------------------------------------------------------------------
UserMessage(chunks) == MessageOf("user", chunks)
AgentMessage(chunks) == MessageOf("agent", chunks)
AgentThought(chunks) == MessageOf("thought", chunks)
ToolCall(i, ti, st) == [kind |-> "tool_call", content |-> <<>>, id |-> i, title |-> ti, status |-> st]

\* The step is one append() call; the update appended is the last of the log.
IsAppendStep == Len(updates') = Len(updates) + 1
IsBuildStep == nbuilds' = nbuilds + 1
Appended == updates'[Len(updates')]

\* C1: replay invariant. For every valid update sequence the Trajectory rebuilt
\* from the raw log by build_from equals the Trajectory the live builder gives,
\* the live builder having had build() called between appends.
C1_ReplayInvariant ==
    ~raised => BuildTrajectory(Builder) = BuildFrom(updates)

\* C2: build() is non-destructive: a build() call leaves groups, buffers and
\* open trackers as they were.
C2_BuildNonDestructive ==
    [][IsBuildStep =>
         /\ groups' = groups
         /\ buffers' = buffers
         /\ tool_calls' = tool_calls]_vars

\* C5: tool-call group boundary.
Ex5 == <<Chunk("thought", "a"), Start("t1", "in_progress"),
         Progress("t1", None, "completed"), Chunk("agent", "b")>>

C5_Example ==
    (updates = Ex5 /\ nbuilds = 0) =>
        BuildTrajectory(Builder) =
            << <<AgentThought(<<"a">>), ToolCall("t1", "ls", "completed")>>,
               <<AgentMessage(<<"b">>)>> >>

\* The appended progress update brings an open tracker to completed or failed.
CompletesToolCall ==
    /\ IsAppendStep
    /\ Appended.type = "tool_call_update"
    /\ FindTracker(tool_calls, Appended.id) # 0
    /\ \/ Appended.status \in {"completed", "failed"}
       \/ /\ Appended.status = None
          /\ tool_calls[FindTracker(tool_calls, Appended.id)].status \in {"completed", "failed"}

C5_CompletionStep ==
    CompletesToolCall =>
        LET u == Appended
            n == Len(groups)
            old == tool_calls[FindTracker(tool_calls, u.id)]
            st == IF u.status # None THEN u.status ELSE old.status
            ti == IF u.title # None THEN u.title ELSE old.title
        IN /\ Len(groups') = n + 1
           /\ groups'[n + 1] = <<>>
           /\ groups'[n] = Append(groups[n], ToolCall(u.id, ti, st))
           /\ \A i \in 1..(n - 1) : groups'[i] = groups[i]
           /\ \A i \in 1..Len(tool_calls') : tool_calls'[i].id # u.id
           /\ Len(tool_calls') = Len(tool_calls) - 1
           /\ buffers' = buffers

\* A group that is no longer the current one never changes again.
C5_ClosedGroupsFrozen ==
    /\ Len(groups') >= Len(groups)
    /\ \A i \in 1..(Len(groups) - 1) : groups'[i] = groups[i]

\* C5: a progress update that completes (or fails) an open tool call appends the
\* built ToolCall to the current group, discards the tracker and opens a new
\* empty group; closed groups never change, so messages of later updates lie in
\* later groups; the four-update example gives exactly the two groups.
C5_ToolCallGroupBoundary ==
    /\ []C5_Example
    /\ [][C5_CompletionStep]_vars
    /\ [][C5_ClosedGroupsFrozen]_vars

C5_Witness ==
    /\ updates = Ex5 /\ nbuilds = 0
    /\ Len(groups) = 2
    /\ tool_calls = <<>>

\* C6: a progress update for an id without open tracker raises and leaves the
\* groups, buffers and trackers, hence the Trajectory build() returns, unchanged.
C6_UnknownId ==
    [][(/\ IsAppendStep
        /\ Appended.type = "tool_call_update"
        /\ FindTracker(tool_calls, Appended.id) = 0) =>
         /\ raised'
         /\ groups' = groups
         /\ buffers' = buffers
         /\ tool_calls' = tool_calls
         /\ BuildTrajectory(Builder)' = BuildTrajectory(Builder)]_vars

C6_Witness ==
    /\ raised
    /\ Flatten(groups) # <<>>
    /\ tool_calls # <<>>
    /\ \E k \in KindSet : buffers[k] # <<>>

\* The content messages the runs of same-kind chunks of a log stand for: a run
\* is closed by a chunk of another kind, by a ToolCallStart and by the end of
\* the log; progress and ignored updates do not close it.
RECURSIVE Runs(_, _, _, _)
Runs(us, i, k, chunks) ==
    LET closed == IF k = None THEN <<>> ELSE <<MessageOf(k, chunks)>> IN
    IF i > Len(us) THEN closed
    ELSE LET u == us[i] IN
         IF u.type \in KindSet
         THEN IF u.type = k
              THEN Runs(us, i + 1, k, Append(chunks, u.content))
              ELSE closed \o Runs(us, i + 1, u.type, <<u.content>>)
         ELSE IF u.type = "tool_call"
              THEN closed \o Runs(us, i + 1, None, <<>>)
              ELSE Runs(us, i + 1, k, chunks)

ContentMessages(traj) == SelectSeq(Flatten(traj), LAMBDA m : m.kind \in KindSet)

Ex7 == <<Chunk("agent", "a"), Chunk("agent", "b")>>

\* C7: coalescing. In the Trajectory built from a valid log, every maximal run of
\* same-kind chunks is exactly one Message holding the chunks' contents in
\* arrival order; two agent chunks give one AgentMessage with two blocks.
C7_Coalescing ==
    nbuilds > 0 =>
        /\ ContentMessages(built) = Runs(updates, 1, None, <<>>)
        /\ updates = Ex7 => built = << <<AgentMessage(<<"a", "b">>)>> >>

C7_Witness ==
    /\ nbuilds > 0
    /\ Len(updates) = 4
    /\ updates[1].type = "tool_call"
    /\ updates[2] = Chunk("agent", "a")
    /\ updates[3].type = "tool_call_update"
    /\ updates[3].status = "completed"
    /\ updates[4] = Chunk("agent", "b")
    /\ ContentMessages(built) = <<AgentMessage(<<"a", "b">>)>>

Ex8 == <<Chunk("user", "a"), Chunk("agent", "b")>>

C8_Example ==
    (updates = Ex8 /\ nbuilds = 0) =>
        BuildTrajectory(Builder) = << <<UserMessage(<<"a">>), AgentMessage(<<"b">>)>> >>

\* The messages of the open buffers of a kind other than k, in flush order.
RECURSIVE OtherOpen(_, _, _)
OtherOpen(i, b, k) ==
    IF i > Len(Kinds) THEN <<>>
    ELSE (IF Kinds[i] # k /\ b[Kinds[i]] # <<>>
          THEN <<MessageOf(Kinds[i], b[Kinds[i]])>> ELSE <<>>)
         \o OtherOpen(i + 1, b, k)

C8_ChunkStep ==
    (IsAppendStep /\ Appended.type \in KindSet) =>
        LET k == Appended.type
            n == Len(groups)
        IN /\ Len(groups') = n
           /\ groups'[n] = groups[n] \o OtherOpen(1, buffers, k)
           /\ \A i \in 1..(n - 1) : groups'[i] = groups[i]
           /\ \A k2 \in KindSet \ {k} : buffers'[k2] = <<>>
           /\ buffers'[k] = Append(buffers[k], Appended.content)

\* C8: kind-switch flush. A chunk closes the open buffers of the other kinds:
\* their Messages are appended to the current group before the chunk is
\* buffered; a user chunk then an agent chunk give [UserMessage, AgentMessage]
\* in one group.
C8_KindSwitchFlush ==
    /\ []C8_Example
    /\ [][C8_ChunkStep]_vars

C8_Witness ==
    /\ updates = Ex8 /\ nbuilds = 0
    /\ groups = << <<UserMessage(<<"a">>)>> >>
    /\ buffers["agent"] = <<"b">>

\* ------------------------------------------------------------------
\* Harness (harness/main.py) and with_sem (utils/sync.py)
\* ------------------------------------------------------------------
\* Benchmark.load_tasks(): the task ids in load order.
Tasks == <<"t1", "t2">>
TaskSet == {Tasks[i] : i \in 1..Len(Tasks)}

\* product(tasks, range(self.trail_count))
Trails(n) == TaskSet \X (0..(n - 1))

\* Variant of the semaphore that admits one waiter too many.
SemFreeOffByOne(v) == v >= 0

\* anyio.Semaphore: a permit can be taken while the value is positive.
SemFree(v) == v > 0

\* Semaphore.acquire / Semaphore.release on entering and leaving `async with sem`.
SemAcquire(v) == v - 1

\* Variant in which leaving `async with sem` gives no permit back.
SemReleaseLost(v) == v

SemRelease(v) == v + 1

TrailResult(tr) == [task |-> tr[1], idx |-> tr[2]]

\* Variant of the append that puts the new result first.
StoreResultFirst(res, tr) == [res EXCEPT ![tr[1]] = <<TrailResult(tr)>> \o @]

\* self._results.setdefault(task_id, []).append(result)
StoreResult(res, tr) == [res EXCEPT ![tr[1]] = Append(@, TrailResult(tr))]

Terminal == {"done", "failed", "cancelled"}

InitHarness ==
    /\ concurrency \in 1..MaxConcurrency
    /\ trail_count \in 1..MaxTrails
    /\ sem = concurrency
    /\ pc = [tr \in Trails(trail_count) |-> "waiting"]
    /\ tgCancelled = FALSE
    /\ results = [t \in TaskSet |-> <<>>]
    /\ phase = "trails"
    /\ logged = <<>>
    /\ aggpc = [t \in TaskSet |-> "pending"]
    /\ aggCancelled = FALSE
    /\ taskResults = <<>>
    /\ harnessResult = <<>>

\* with_sem: `async with sem` entered by a child task of run()'s task group.
Acquire(tr) ==
    /\ phase = "trails" /\ pc[tr] = "waiting" /\ ~tgCancelled
    /\ SemFree(sem)
    /\ sem' = SemAcquire(sem)
    /\ pc' = [pc EXCEPT ![tr] = "active"]
    /\ UNCHANGED <<concurrency, trail_count, tgCancelled, results, phase, logged,
                   aggpc, aggCancelled, taskResults, harnessResult>>

\* _run_trail: runner.run() returned; the result is stored and the permit released.
Complete(tr) ==
    /\ phase = "trails" /\ pc[tr] = "active" /\ ~tgCancelled
    /\ results' = StoreResult(results, tr)
    /\ sem' = SemRelease(sem)
    /\ pc' = [pc EXCEPT ![tr] = "done"]
    /\ UNCHANGED <<concurrency, trail_count, tgCancelled, phase, logged,
                   aggpc, aggCancelled, taskResults, harnessResult>>

\* runner.run() raised: the exception leaves `async with sem` (permit released),
\* ends the child task and cancels the task group's scope.
Fault(tr) ==
    /\ phase = "trails" /\ pc[tr] = "active" /\ ~tgCancelled
    /\ sem' = SemRelease(sem)
    /\ pc' = [pc EXCEPT ![tr] = "failed"]
    /\ tgCancelled' = TRUE
    /\ UNCHANGED <<concurrency, trail_count, results, phase, logged,
                   aggpc, aggCancelled, taskResults, harnessResult>>

\* A child still waiting for the semaphore is cancelled with the scope.
CancelWaiting(tr) ==
    /\ phase = "trails" /\ pc[tr] = "waiting" /\ tgCancelled
    /\ pc' = [pc EXCEPT ![tr] = "cancelled"]
    /\ UNCHANGED <<concurrency, trail_count, sem, tgCancelled, results, phase, logged,
                   aggpc, aggCancelled, taskResults, harnessResult>>

\* A child inside runner.run() is cancelled at its next await; the permit is released.
CancelActive(tr) ==
    /\ phase = "trails" /\ pc[tr] = "active" /\ tgCancelled
    /\ sem' = SemRelease(sem)
    /\ pc' = [pc EXCEPT ![tr] = "cancelled"]
    /\ UNCHANGED <<concurrency, trail_count, tgCancelled, results, phase, logged,
                   aggpc, aggCancelled, taskResults, harnessResult>>

AllTrailsEnded == \A tr \in DOMAIN pc : pc[tr] \in Terminal

\* _log_completion_status: len(results) per task.
CompletionStatus(res) == [t \in TaskSet |-> Len(res[t])]

\* The task group of run() exits normally: log, then enter _build_harness_result,
\* which starts one build_result child per task.
LogCompletion ==
    /\ phase = "trails" /\ AllTrailsEnded /\ ~tgCancelled
    /\ logged' = CompletionStatus(results)
    /\ aggpc' = [t \in TaskSet |-> "running"]
    /\ phase' = "aggregate"
    /\ UNCHANGED <<concurrency, trail_count, sem, pc, tgCancelled, results,
                   aggCancelled, taskResults, harnessResult>>

\* The task group of run() re-raises the child's exception: run() raises.
RunRaises ==
    /\ phase = "trails" /\ AllTrailsEnded /\ tgCancelled
    /\ phase' = "raised"
    /\ UNCHANGED <<concurrency, trail_count, sem, pc, tgCancelled, results, logged,
                   aggpc, aggCancelled, taskResults, harnessResult>>

\* _build_task_result
TaskResult(t, res) == [task |-> t, trails |-> res[t]]

\* results[task.metadata.id] = result (a dict keeps insertion order)
PutTaskResult(trs, r) ==
    IF \E n \in 1..Len(trs) : trs[n].task = r.task
    THEN [n \in 1..Len(trs) |-> IF trs[n].task = r.task THEN r ELSE trs[n]]
    ELSE Append(trs, r)

GetTaskResult(trs, t) == trs[CHOOSE n \in 1..Len(trs) : trs[n].task = t]

\* Variant that lists the TaskResults in the order they were stored.
BuildHarnessResultByCompletion(trs) == trs

\* task_results = [results[task.metadata.id] for task in tasks]
BuildHarnessResult(trs) == [i \in 1..Len(Tasks) |-> GetTaskResult(trs, Tasks[i])]

\* build_result(task): every metric returned, the TaskResult is stored.
AggDone(t) ==
    /\ phase = "aggregate" /\ aggpc[t] = "running" /\ ~aggCancelled
    /\ taskResults' = PutTaskResult(taskResults, TaskResult(t, results))
    /\ aggpc' = [aggpc EXCEPT ![t] = "done"]
    /\ UNCHANGED <<concurrency, trail_count, sem, pc, tgCancelled, results, phase,
                   logged, aggCancelled, harnessResult>>

\* An outcome metric raised in calculate_metric: _build_task_result raises, the
\* build_result child ends with the exception and the scope is cancelled.
AggFault(t) ==
    /\ phase = "aggregate" /\ aggpc[t] = "running" /\ ~aggCancelled
    /\ aggpc' = [aggpc EXCEPT ![t] = "failed"]
    /\ aggCancelled' = TRUE
    /\ UNCHANGED <<concurrency, trail_count, sem, pc, tgCancelled, results, phase,
                   logged, taskResults, harnessResult>>

AggCancel(t) ==
    /\ phase = "aggregate" /\ aggpc[t] = "running" /\ aggCancelled
    /\ aggpc' = [aggpc EXCEPT ![t] = "cancelled"]
    /\ UNCHANGED <<concurrency, trail_count, sem, pc, tgCancelled, results, phase,
                   logged, aggCancelled, taskResults, harnessResult>>

AllAggEnded == \A t \in TaskSet : aggpc[t] \in Terminal

\* return HarnessResult(agent_id=..., tasks=task_results)
Return ==
    /\ phase = "aggregate" /\ AllAggEnded /\ ~aggCancelled
    /\ harnessResult' = BuildHarnessResult(taskResults)
    /\ phase' = "returned"
    /\ UNCHANGED <<concurrency, trail_count, sem, pc, tgCancelled, results, logged,
                   aggpc, aggCancelled, taskResults>>

AggRaises ==
    /\ phase = "aggregate" /\ AllAggEnded /\ aggCancelled
    /\ phase' = "raised"
    /\ UNCHANGED <<concurrency, trail_count, sem, pc, tgCancelled, results, logged,
                   aggpc, aggCancelled, taskResults, harnessResult>>

NextHarness ==
    \/ \E tr \in DOMAIN pc : Acquire(tr) /\ UNCHANGED <<builderVars, trailVars>>
    \/ \E tr \in DOMAIN pc : Complete(tr) /\ UNCHANGED <<builderVars, trailVars>>
    \/ \E tr \in DOMAIN pc : Fault(tr) /\ UNCHANGED <<builderVars, trailVars>>
    \/ \E tr \in DOMAIN pc : CancelWaiting(tr) /\ UNCHANGED <<builderVars, trailVars>>
    \/ \E tr \in DOMAIN pc : CancelActive(tr) /\ UNCHANGED <<builderVars, trailVars>>
    \/ LogCompletion /\ UNCHANGED <<builderVars, trailVars>>
    \/ RunRaises /\ UNCHANGED <<builderVars, trailVars>>
    \/ \E t \in TaskSet : AggDone(t) /\ UNCHANGED <<builderVars, trailVars>>
    \/ \E t \in TaskSet : AggFault(t) /\ UNCHANGED <<builderVars, trailVars>>
    \/ \E t \in TaskSet : AggCancel(t) /\ UNCHANGED <<builderVars, trailVars>>
    \/ Return /\ UNCHANGED <<builderVars, trailVars>>
    \/ AggRaises /\ UNCHANGED <<builderVars, trailVars>>

InitRun == InitBuilder /\ InitHarness /\ InitTrailIdle

SpecHarness == InitRun /\ [][NextHarness]_vars

\* ------------------------------------------------------------------
\* Properties of the harness
\* ------------------------------------------------------------------
Active == {tr \in DOMAIN pc : pc[tr] = "active"}

\* C3: concurrency bound. Never more than `concurrency` trails are between
\* acquiring the semaphore and leaving TrailRunner.run.
C3_ConcurrencyBound == Cardinality(Active) <= concurrency

C3_Witness ==
    /\ concurrency = 2
    /\ Cardinality(Active) = concurrency
    /\ \E tr \in DOMAIN pc : pc[tr] = "waiting"

\* C4: trial fault isolation. A fault in one trail cancels no sibling and does
\* not abort run(): the others complete, the completion status is logged and a
\* HarnessResult is returned.
C4_TrialFaultIsolation ==
    (\E tr \in DOMAIN pc : pc[tr] = "failed") =>
        /\ \A tr \in DOMAIN pc : pc[tr] # "cancelled"
        /\ phase # "raised"

\* C9: task ordering. HarnessResult.tasks holds one TaskResult per loaded task,
\* in load order, whatever the order in which the aggregations completed.
C9_TaskOrdering ==
    phase = "returned" =>
        /\ Len(harnessResult) = Len(Tasks)
        /\ \A i \in 1..Len(Tasks) : harnessResult[i].task = Tasks[i]

C9_Witness ==
    /\ phase = "returned"
    /\ Len(harnessResult) = Len(Tasks)
    /\ taskResults[1].task = Tasks[2]
    /\ harnessResult[1].task = Tasks[1]
    /\ Len(harnessResult[1].trails) = 2
    /\ harnessResult[1].trails[1].idx = 1

\* C10: aggregation fault isolation. A metric fault in one task's aggregation
\* cancels no other task's aggregation and run() still returns a HarnessResult.
C10_AggregationFaultIsolation ==
    (\E t \in TaskSet : aggpc[t] = "failed") =>
        /\ \A t \in TaskSet : aggpc[t] # "cancelled"
        /\ phase # "raised"

\* C15: semaphore discipline. The permits held (concurrency - value) equal the
\* number of trails between acquire and release at all times, a trail that
\* completed, failed or was cancelled holds none, and when all trails have
\* ended all permits are free.
C15_SemaphoreDiscipline ==
    /\ sem >= 0
    /\ concurrency - sem = Cardinality(Active)
    /\ AllTrailsEnded => sem = concurrency

C15_Witness ==
    /\ AllTrailsEnded
    /\ sem = concurrency
    /\ \E tr \in DOMAIN pc : pc[tr] = "failed"
    /\ \E tr \in DOMAIN pc : pc[tr] = "done"

Done(t) == {tr \in DOMAIN pc : tr[1] = t /\ pc[tr] = "done"}

\* The results of every task are exactly those of its completed trails, once each.
C16_Collected ==
    \A t \in TaskSet :
        /\ Len(results[t]) = Cardinality(Done(t))
        /\ \A tr \in Done(t) : \E n \in 1..Len(results[t]) : results[t][n] = TrailResult(tr)
        /\ \A n \in 1..Len(results[t]) : results[t][n].task = t

\* A trail that completes puts its result at the end of its task's list and
\* nothing else changes the lists.
C16_ArrivalOrder ==
    \A t \in TaskSet :
        \/ results'[t] = results[t]
        \/ \E tr \in DOMAIN pc :
              /\ tr[1] = t /\ pc[tr] = "active" /\ pc'[tr] = "done"
              /\ results'[t] = Append(results[t], TrailResult(tr))

\* C16: result collection. Every completed trail appends exactly one
\* TrailResult to its own task's list, at the end (arrival order); no append is
\* lost, duplicated or put into another task's list.
C16_ResultCollection ==
    /\ []C16_Collected
    /\ [][C16_ArrivalOrder]_vars

C16_Witness ==
    /\ Len(results["t1"]) = 2
    /\ results["t1"][1].idx = 1
    /\ results["t1"][2].idx = 0
    /\ Len(results["t2"]) = 1

\* ---------------------------------------------------------------------------
\* Emission order and finalization
\* ---------------------------------------------------------------------------

FlatBuilt == Flatten(built)

\* The last update of the log is a ToolCallProgress that closed a tool call.
LastCompletes ==
    /\ updates # <<>>
    /\ updates[Len(updates)].type = "tool_call_update"
    /\ updates[Len(updates)].status \in {"completed", "failed"}

Ex19 == <<Start("t1", "in_progress"), Chunk("agent", "a"), Progress("t1", None, "completed")>>

\* C19: emission order is preserved. In the flattened view of the Trajectory
\* built from a valid log the content Messages are in the arrival order of
\* their chunks, and when the log ends with the ToolCallProgress that completed
\* a tool call (all chunks arrived before it) no content Message comes after
\* that ToolCall.
C19_EmissionOrder ==
    (nbuilds > 0 /\ ~raised) =>
        /\ ContentMessages(built) = Runs(updates, 1, None, <<>>)
        /\ LastCompletes =>
              \A n \in 1..Len(FlatBuilt) :
                  (FlatBuilt[n].kind = "tool_call" /\ FlatBuilt[n].id = updates[Len(updates)].id)
                      => \A j \in (n + 1)..Len(FlatBuilt) : FlatBuilt[j].kind \notin KindSet

\* The messages build() adds to the current group: the buffered content, then
\* the ToolCall of every open tracker in creation order.
Finalized ==
    OtherOpen(1, buffers, None) \o [n \in 1..Len(tool_calls) |-> BuildToolCall(tool_calls[n])]

C20_BuildStep ==
    IsBuildStep =>
        LET n == Len(groups)
            expected == [groups EXCEPT ![n] = @ \o Finalized]
        IN /\ built' = SelectSeq(expected, LAMBDA g : g # <<>>)
           /\ \A i \in 1..Len(built') : built'[i] # <<>>
           /\ \A k \in KindSet : buffers'[k] = <<>>

\* C20: finalization output. build() flushes all buffered content into the
\* current group, then adds the ToolCall of every open tracker (incomplete ones
\* too), and returns the non-empty groups in creation order.
C20_Finalization == [][C20_BuildStep]_vars

C20_Witness ==
    /\ nbuilds > 0
    /\ built = << <<ToolCall("t1", "ls", "completed")>>,
                  <<AgentMessage(<<"a">>), ToolCall("t2", "ls", "in_progress")>> >>

\* ---------------------------------------------------------------------------
\* TrailRunner.run: one trail from sandbox construction to its TrailResult
\* ---------------------------------------------------------------------------

MaxPrompts == 2
MaxSending == 2

\* The task of the trail and the registered graders in registration order.
TrailTask == "t1"
Graders == <<"g1", "g2">>
GraderSet == {Graders[n] : n \in 1..Len(Graders)}

\* What a grader returns: an OutcomeData instance or a bare value.
RawOutcomes == {[data |-> TRUE, root |-> "pass"], [data |-> FALSE, root |-> "pass"]}

\* OutcomeValue.ensure
Ensure(raw) == IF raw.data THEN raw ELSE [data |-> TRUE, root |-> raw.root]

\* The updates the agent emits while it answers a prompt.
AgentUpdates == {Chunk("agent", "a"), Start("t1", "in_progress"), Progress("t1", None, "completed")}

\* Variables the runner never writes.
trailFrame == <<concurrency, trail_count, sem, pc, tgCancelled, phase, logged, aggpc,
                aggCancelled, taskResults, harnessResult, graderTrails,
                metricVars, trackerVars, convVars, calls, data>>

InitTrail ==
    /\ InitBuilder
    /\ concurrency = 1
    /\ trail_count = 1
    /\ sem = 0
    /\ pc = [tr \in Trails(1) |-> IF tr[1] = TrailTask THEN "active" ELSE "done"]
    /\ tgCancelled = FALSE
    /\ results = [t \in TaskSet |-> <<>>]
    /\ phase = "trails"
    /\ logged = <<>>
    /\ aggpc = [t \in TaskSet |-> "pending"]
    /\ aggCancelled = FALSE
    /\ taskResults = <<>>
    /\ harnessResult = <<>>
    /\ answer = None
    /\ InitRestIdle
    /\ tpc = "start"
    /\ sandbox = None
    /\ builds = 0
    /\ sending = <<>>
    /\ prompts = 0
    /\ promptKind \in {"static", "dynamic"}
    /\ concurrentGrade \in BOOLEAN
    /\ gpc = [g \in GraderSet |-> "pending"]
    /\ gradeCancelled = FALSE
    /\ outcomes = <<>>
    /\ trailResult = None
    /\ graderTrails = <<>>

\* Variant of the sandbox's `finally` block that leaves the container alone.
TeardownSkipped(sb) == sb

\* The `finally` of Sandbox.run: stop_container, rm_container (rm_image).
Teardown(sb) == "stopped"

\* Variant in which a failed sandbox construction is tried again.
PropagateRetry(step) == IF step = "start" THEN "start" ELSE "raised"

\* run() has no try/except: an exception of any step leaves run().
Propagate(step) == "raised"

\* self._builder.build() through build_trajectory()
RunnerBuild ==
    /\ SetBuilder(BuildState(Builder))
    /\ built' = BuildTrajectory(Builder)
    /\ nbuilds' = nbuilds + 1

\* sandbox = await self.sandbox_builder.build(...)
BuildSandbox ==
    /\ tpc = "start"
    /\ builds' = builds + 1
    /\ \E ok \in BOOLEAN :
          IF ok THEN sandbox' = "built" /\ tpc' = "enter"
          ELSE sandbox' = sandbox /\ tpc' = Propagate(tpc)
    /\ UNCHANGED <<answer, builderVars, trailFrame, results, sending, prompts, promptKind,
                   concurrentGrade, gpc, gradeCancelled, outcomes, trailResult>>

\* async with sandbox.run(): start_container runs before the try block.
EnterSandbox ==
    /\ tpc = "enter"
    /\ \E ok \in BOOLEAN :
          IF ok THEN sandbox' = "running" /\ tpc' = "stage"
          ELSE sandbox' = sandbox /\ tpc' = Propagate(tpc)
    /\ UNCHANGED <<answer, builderVars, trailFrame, results, builds, sending, prompts, promptKind,
                   concurrentGrade, gpc, gradeCancelled, outcomes, trailResult>>

\* the task group uploading the config and credential files
\* On an exception the sandbox's finally block runs and the exception leaves run().
Stage ==
    /\ tpc = "stage"
    /\ \E ok \in BOOLEAN :
          IF ok THEN sandbox' = sandbox /\ tpc' = "acp"
          ELSE sandbox' = Teardown(sandbox) /\ tpc' = Propagate(tpc)
    /\ UNCHANGED <<answer, builderVars, trailFrame, results, builds, sending, prompts, promptKind,
                   concurrentGrade, gpc, gradeCancelled, outcomes, trailResult>>

\* conn = await sandbox.acp(client, *cmd, ...)
\* On an exception the sandbox's finally block runs and the exception leaves run().
LaunchAgent ==
    /\ tpc = "acp"
    /\ \E ok \in BOOLEAN :
          IF ok THEN sandbox' = sandbox /\ tpc' = "session"
          ELSE sandbox' = Teardown(sandbox) /\ tpc' = Propagate(tpc)
    /\ UNCHANGED <<answer, builderVars, trailFrame, results, builds, sending, prompts, promptKind,
                   concurrentGrade, gpc, gradeCancelled, outcomes, trailResult>>

\* resp = await conn.new_session(...); self._stream = client.stream_update(...)
\* On an exception the sandbox's finally block runs and the exception leaves run().
NewSession ==
    /\ tpc = "session"
    /\ \E ok \in BOOLEAN :
          IF ok THEN sandbox' = sandbox /\ tpc' = "loop"
          ELSE sandbox' = Teardown(sandbox) /\ tpc' = Propagate(tpc)
    /\ UNCHANGED <<answer, builderVars, trailFrame, results, builds, sending, prompts, promptKind,
                   concurrentGrade, gpc, gradeCancelled, outcomes, trailResult>>

\* Task.invoke_prompt: the answers it can give for a trajectory. A prompt
\* callable returns blocks, an empty list or None, or raises; a static prompt is
\* returned while the trajectory has no group.
invoke_prompt(kind, traj) ==
    IF kind = "dynamic" THEN {"prompt", "empty", "none", "raise"}
    ELSE IF Len(traj) = 0 THEN {"prompt"} ELSE {"none"}

\* Variant of the loop test that only stops on None.
TruthyNotNone(r) == r # "none"

\* The test of `while prompt := ...`: None and the empty list are false.
Truthy(r) == r = "prompt"

\* while prompt := await task.invoke_prompt(self.build_trajectory()): conn.prompt(...)
InvokePrompt ==
    /\ tpc = "loop"
    /\ RunnerBuild
    /\ \E r \in invoke_prompt(promptKind, BuildTrajectory(Builder)) :
          IF r = "raise"
          THEN /\ answer' = answer
               /\ prompts' = prompts
               /\ tpc' = Propagate(tpc)
               /\ sandbox' = Teardown(sandbox)
          ELSE /\ answer' = r
               /\ sandbox' = sandbox
               /\ IF Truthy(r)
                  THEN /\ prompts < MaxPrompts
                       /\ prompts' = prompts + 1
                       /\ tpc' = "prompting"
                  ELSE /\ prompts' = prompts
                       /\ tpc' = "traj"
    /\ UNCHANGED <<trailFrame, results, builds, sending, promptKind,
                   concurrentGrade, gpc, gradeCancelled, outcomes, trailResult>>

\* ReadonlyACPClient.session_update: the update is handed to send.send() of a
\* stream without buffer; nothing iterates stream_trajectory(), so the call
\* stays there and the runner's builder is not touched.
Deliver ==
    /\ tpc = "prompting"
    /\ Len(sending) < MaxSending
    /\ \E u \in AgentUpdates : sending' = Append(sending, u)
    /\ UNCHANGED <<answer, builderVars, trailFrame, results, tpc, sandbox, builds, prompts, promptKind,
                   concurrentGrade, gpc, gradeCancelled, outcomes, trailResult>>

\* resp = await conn.prompt(...) returns, or raises.
PromptReturn ==
    /\ tpc = "prompting"
    /\ \E ok \in BOOLEAN :
          IF ok THEN sandbox' = sandbox /\ tpc' = "loop"
          ELSE sandbox' = Teardown(sandbox) /\ tpc' = Propagate(tpc)
    /\ UNCHANGED <<answer, builderVars, trailFrame, results, builds, sending, prompts, promptKind,
                   concurrentGrade, gpc, gradeCancelled, outcomes, trailResult>>

\* traj = self.build_trajectory(); grade_ctx = ...; outcomes = {}
PrepareGrading ==
    /\ tpc = "traj"
    /\ RunnerBuild
    /\ tpc' = "grade"
    /\ outcomes' = <<>>
    /\ UNCHANGED <<answer, trailFrame, results, sandbox, builds, sending, prompts, promptKind,
                   concurrentGrade, gpc, gradeCancelled, trailResult>>

\* Variant of the sequential loop that starts a grader without waiting.
GraderReadyAny(gp, n) == TRUE

\* for grader_id, grader in self.graders.items(): await run_grader(...)
GraderReady(gp, n) == \A m \in 1..(n - 1) : gp[Graders[m]] = "done"

\* outcomes[grader_id] = ... on a dict that keeps insertion order
PutOutcome(os, g, o) ==
    IF \E n \in 1..Len(os) : os[n].id = g
    THEN [n \in 1..Len(os) |-> IF os[n].id = g THEN [id |-> g, outcome |-> o] ELSE os[n]]
    ELSE Append(os, [id |-> g, outcome |-> o])

\* Variant in which the graders may be entered while the prompting loop runs.
GradingOpenEarly(pos) == pos \in {"loop", "grade"}

\* The statements that enter run_grader come after the while loop and after
\* grade_ctx is made, inside `async with sandbox.run()`.
GradingOpen(pos) == pos = "grade"

\* run_grader is entered: by the sequential loop, or as a child of the task group.
StartGrader(n) ==
    /\ GradingOpen(tpc) /\ ~gradeCancelled
    /\ gpc[Graders[n]] = "pending"
    /\ concurrentGrade \/ GraderReady(gpc, n)
    /\ gpc' = [gpc EXCEPT ![Graders[n]] = "running"]
    /\ UNCHANGED <<answer, builderVars, trailFrame, results, tpc, sandbox, builds, sending, prompts,
                   promptKind, concurrentGrade, gradeCancelled, outcomes, trailResult>>

\* raw = await grader(grade_ctx); outcomes[grader_id] = OutcomeValue.ensure(raw)
GraderReturn(n) ==
    /\ tpc = "grade" /\ ~gradeCancelled
    /\ gpc[Graders[n]] = "running"
    /\ gpc' = [gpc EXCEPT ![Graders[n]] = "done"]
    /\ \E raw \in RawOutcomes : outcomes' = PutOutcome(outcomes, Graders[n], Ensure(raw))
    /\ UNCHANGED <<answer, builderVars, trailFrame, results, tpc, sandbox, builds, sending, prompts,
                   promptKind, concurrentGrade, gradeCancelled, trailResult>>

\* A grader raises: the sequential loop lets the exception leave run(); the task
\* group cancels its scope and raises once every child has ended.
GraderFault(n) ==
    /\ tpc = "grade" /\ ~gradeCancelled
    /\ gpc[Graders[n]] = "running"
    /\ gpc' = [gpc EXCEPT ![Graders[n]] = "failed"]
    /\ IF concurrentGrade
       THEN gradeCancelled' = TRUE /\ tpc' = tpc /\ sandbox' = sandbox
       ELSE gradeCancelled' = gradeCancelled /\ tpc' = Propagate(tpc) /\ sandbox' = Teardown(sandbox)
    /\ UNCHANGED <<answer, builderVars, trailFrame, results, builds, sending, prompts,
                   promptKind, concurrentGrade, outcomes, trailResult>>

\* A child of the cancelled task group ends at its next checkpoint.
GraderCancel(n) ==
    /\ tpc = "grade" /\ gradeCancelled
    /\ gpc[Graders[n]] \in {"pending", "running"}
    /\ gpc' = [gpc EXCEPT ![Graders[n]] = "cancelled"]
    /\ UNCHANGED <<answer, builderVars, trailFrame, results, tpc, sandbox, builds, sending, prompts,
                   promptKind, concurrentGrade, gradeCancelled, outcomes, trailResult>>

\* The task group has no child left and re-raises the grader's exception.
GradeRaise ==
    /\ tpc = "grade" /\ gradeCancelled
    /\ \A g \in GraderSet : gpc[g] \in {"done", "failed", "cancelled"}
    /\ tpc' = Propagate(tpc)
    /\ sandbox' = Teardown(sandbox)
    /\ UNCHANGED <<answer, builderVars, trailFrame, results, builds, sending, prompts,
                   promptKind, concurrentGrade, gpc, gradeCancelled, outcomes, trailResult>>

\* self._results.setdefault(task_id, []).append(result), for the runner's result
StoreTrailResult(res, t, r) == [res EXCEPT ![t] = Append(@, r)]

\* return TrailResult(traj=self.build_trajectory_data(), outcomes=outcomes), the
\* sandbox scope is left, and _run_trail appends the result.
Finish ==
    /\ tpc = "grade" /\ ~gradeCancelled
    /\ \A g \in GraderSet : gpc[g] = "done"
    /\ trailResult' = [traj |-> updates, outcomes |-> outcomes]
    /\ sandbox' = Teardown(sandbox)
    /\ tpc' = "returned"
    /\ results' = StoreTrailResult(results, TrailTask, trailResult')
    /\ UNCHANGED <<answer, builderVars, trailFrame, builds, sending, prompts,
                   promptKind, concurrentGrade, gpc, gradeCancelled, outcomes>>

InFlight == {"start", "enter", "stage", "acp", "session", "loop", "prompting", "traj", "grade"}

\* The harness's task group is cancelled while the trail runs: the trail ends at
\* its next checkpoint, the graders being awaited end with it; the awaits of
\* the sandbox's finally block are not shielded, so the stop command may or may
\* not have taken effect.
CancelTrail ==
    /\ tpc \in InFlight
    /\ tpc' = "cancelled"
    /\ gpc' = [g \in DOMAIN gpc |-> IF gpc[g] = "running" THEN "cancelled" ELSE gpc[g]]
    /\ sandbox' \in (IF sandbox = "running" THEN {"running", Teardown(sandbox)} ELSE {sandbox})
    /\ UNCHANGED <<answer, builderVars, trailFrame, results, builds, sending, prompts,
                   promptKind, concurrentGrade, gradeCancelled, outcomes, trailResult>>

NextTrail ==
    \/ BuildSandbox
    \/ EnterSandbox
    \/ Stage
    \/ LaunchAgent
    \/ NewSession
    \/ InvokePrompt
    \/ Deliver
    \/ PromptReturn
    \/ PrepareGrading
    \/ \E n \in 1..Len(Graders) : StartGrader(n)
    \/ \E n \in 1..Len(Graders) : GraderReturn(n)
    \/ \E n \in 1..Len(Graders) : GraderFault(n)
    \/ \E n \in 1..Len(Graders) : GraderCancel(n)
    \/ GradeRaise
    \/ Finish
    \/ CancelTrail

SpecTrail == InitTrail /\ [][NextTrail]_vars

\* ---------------------------------------------------------------------------
\* Properties of one trail
\* ---------------------------------------------------------------------------

Scoped == {"stage", "acp", "session", "loop", "prompting", "traj", "grade"}

C11_Left == tpc \in {"returned", "raised"} => sandbox # "running"

C11_ExitStep ==
    (tpc \in Scoped /\ tpc' \in {"returned", "raised"}) =>
        sandbox = "running" /\ sandbox' = "stopped"

C12_UpdateFeeding ==
    /\ tpc \in {"grade", "returned"} => updates = sending
    /\ tpc = "returned" => trailResult.traj = sending

\* C13: static prompt policy. A static prompt is sent exactly once: never a
\* second time, and once before grading starts.
C13_StaticPromptOnce ==
    promptKind = "static" =>
        /\ prompts <= 1
        /\ tpc \in {"traj", "grade", "returned"} => prompts = 1

\* C14: a failed trail produces no result. When a step of run() raised there is
\* no TrailResult, the task's result list got nothing, and the sandbox was
\* constructed exactly once (no retry).
C14_NoResultOnFailure ==
    /\ builds <= 1
    /\ tpc \notin {"start", "cancelled"} => builds = 1
    /\ tpc = "raised" => trailResult = None /\ results[TrailTask] = <<>>
    /\ results[TrailTask] # <<>> => tpc = "returned" /\ results[TrailTask] = <<trailResult>>

C14_Witness ==
    /\ tpc = "raised"
    /\ prompts = 1
    /\ sending # <<>>
    /\ gpc["g1"] = "pending"
    /\ results[TrailTask] = <<>>

Running == {g \in GraderSet : gpc[g] = "running"}

\* C17: sequential grading. With concurrent_grade = False at most one grader
\* runs, a grader is entered only after every grader registered before it has
\* returned, and a trail that returned has exactly one normalized outcome per
\* grader, in registration order.
C17_SequentialGrading ==
    ~concurrentGrade =>
        /\ Cardinality(Running) <= 1
        /\ \A n \in 1..Len(Graders) :
              gpc[Graders[n]] # "pending" => \A m \in 1..(n - 1) : gpc[Graders[m]] = "done"
        /\ tpc = "returned" =>
              /\ Len(trailResult.outcomes) = Len(Graders)
              /\ \A n \in 1..Len(Graders) :
                    /\ trailResult.outcomes[n].id = Graders[n]
                    /\ trailResult.outcomes[n].outcome.data

C17_Witness ==
    /\ ~concurrentGrade
    /\ tpc = "returned"
    /\ Len(trailResult.outcomes) = 2
    /\ results[TrailTask] = <<trailResult>>

\* ---------------------------------------------------------------------------
\* Harness._build_task_result: grouping the collected results by grader id
\* ---------------------------------------------------------------------------

MaxResults == 2

\* The outcomes a TrailResult holds: values normalized by OutcomeValue.ensure.
AggOutcomes == {Ensure([data |-> FALSE, root |-> r]) : r \in {"pass", "fail"}}

\* The persisted update logs of the collected results.
AggLogs == {<<>>, <<Chunk("agent", "a")>>}

\* TrailResult.outcomes: a dict from grader id to outcome; the registry can
\* grow between two runs of one Harness, and concurrent grading stores the
\* outcomes in completion order.
OutcomeDicts ==
    {os \in UNION {[1..n -> [id : GraderSet, outcome : AggOutcomes]] : n \in 0..Len(Graders)} :
        \A i, j \in 1..Len(os) : os[i].id = os[j].id => i = j}

ResultLists(max) == UNION {[1..n -> [traj : AggLogs, outcomes : OutcomeDicts]] : n \in 0..max}

InitAggregate ==
    /\ InitBuilder
    /\ concurrency = 1
    /\ trail_count = 1
    /\ sem = 1
    /\ pc = <<>>
    /\ tgCancelled = FALSE
    /\ \E rs \in ResultLists(MaxResults) :
          results = [t \in TaskSet |-> IF t = TrailTask THEN rs ELSE <<>>]
    /\ phase = "grouping"
    /\ logged = <<>>
    /\ aggpc = <<>>
    /\ aggCancelled = FALSE
    /\ taskResults = <<>>
    /\ harnessResult = <<>>
    /\ InitTrailIdle

\* isinstance(outcome, MetricValue): MetricValue is not an OutcomeData.
IsMetricValue(o) == ~o.data

\* if isinstance(outcome, MetricValue): outcome = outcome.root
Unwrap(o) == IF IsMetricValue(o) THEN o.root ELSE o

\* MetricTrail(outcome=outcome, traj=trajectory)
MetricTrail(o, traj) == [outcome |-> o, traj |-> traj]

\* Variant of the append that puts the new trail first in its group.
PutTrailFirst(gt, g, trail) ==
    IF \E n \in 1..Len(gt) : gt[n].id = g
    THEN [n \in 1..Len(gt) |-> IF gt[n].id = g THEN [gt[n] EXCEPT !.trails = <<trail>> \o @] ELSE gt[n]]
    ELSE Append(gt, [id |-> g, trails |-> <<trail>>])

\* grader_trails.setdefault(grader_id, []).append(trail)
PutTrail(gt, g, trail) ==
    IF \E n \in 1..Len(gt) : gt[n].id = g
    THEN [n \in 1..Len(gt) |-> IF gt[n].id = g THEN [gt[n] EXCEPT !.trails = Append(@, trail)] ELSE gt[n]]
    ELSE Append(gt, [id |-> g, trails |-> <<trail>>])

\* for grader_id, outcome in result.outcomes.items(): ...
RECURSIVE GroupOutcomes(_, _, _, _)
GroupOutcomes(gt, os, n, traj) ==
    IF n > Len(os) THEN gt
    ELSE GroupOutcomes(PutTrail(gt, os[n].id, MetricTrail(Unwrap(os[n].outcome), traj)),
                       os, n + 1, traj)

\* for result in results: trajectory = TrajectoryBuilder.build_from(result.traj.updates); ...
RECURSIVE GroupResults(_, _, _)
GroupResults(gt, rs, n) ==
    IF n > Len(rs) THEN gt
    ELSE GroupResults(GroupOutcomes(gt, rs[n].outcomes, 1, BuildFrom(rs[n].traj)), rs, n + 1)

\* _build_task_result up to the metric calls: grader_trails is complete.
GroupByGrader ==
    /\ phase = "grouping"
    /\ graderTrails' = GroupResults(<<>>, results[TrailTask], 1)
    /\ phase' = "grouped"
    /\ UNCHANGED <<builderVars, concurrency, trail_count, sem, pc, tgCancelled, results, logged,
                   aggpc, aggCancelled, taskResults, harnessResult, tpc, sandbox, builds,
                   sending, prompts, promptKind, concurrentGrade, gpc, gradeCancelled,
                   outcomes, trailResult, answer, metricVars, trackerVars, convVars, calls, data>>

NextAggregate == GroupByGrader

SpecAggregate == InitAggregate /\ [][NextAggregate]_vars

Includes(r, g) == \E n \in 1..Len(r.outcomes) : r.outcomes[n].id = g
OutcomeFor(r, g) == r.outcomes[CHOOSE n \in 1..Len(r.outcomes) : r.outcomes[n].id = g].outcome

\* The pairs expected under grader id g: one per result that has g, in list order.
ExpectedGroup(g) ==
    LET rs == SelectSeq(results[TrailTask], LAMBDA r : Includes(r, g))
    IN [n \in 1..Len(rs) |-> [outcome |-> OutcomeFor(rs[n], g), traj |-> BuildFrom(rs[n].traj)]]

\* The Trails passed under grader id g (no keyword if the dict has no such key).
PassedGroup(g) ==
    IF \E n \in 1..Len(graderTrails) : graderTrails[n].id = g
    THEN graderTrails[CHOOSE n \in 1..Len(graderTrails) : graderTrails[n].id = g].trails
    ELSE <<>>

\* C18: grouping by grader id. The group passed to the outcome metrics under
\* grader id g holds exactly one (outcome, trajectory) pair per collected result
\* whose outcomes include g, in result-list order, with that result's outcome
\* for g and the Trajectory rebuilt from that result's persisted log; a grader
\* id has a group iff some result includes it.
C18_GroupingByGrader ==
    phase = "grouped" =>
        /\ \A g \in GraderSet : PassedGroup(g) = ExpectedGroup(g)
        /\ \A n \in 1..Len(graderTrails) : graderTrails[n].trails # <<>>
        /\ \A i, j \in 1..Len(graderTrails) : graderTrails[i].id = graderTrails[j].id => i = j

C18_Witness ==
    /\ phase = "grouped"
    /\ Len(results[TrailTask]) = 2
    /\ ~Includes(results[TrailTask][1], "g1")
    /\ Len(PassedGroup("g1")) = 1
    /\ Len(PassedGroup("g2")) = 2
    /\ PassedGroup("g2")[1].traj # PassedGroup("g2")[2].traj
    /\ PassedGroup("g2")[1].outcome # PassedGroup("g2")[2].outcome

\* ---------------------------------------------------------------------------
\* pass_k and pass_k_metric (metric/builtin/pass_k.py)
\* ---------------------------------------------------------------------------

MaxSamples == 5
MaxK == 3

\* All variables but those of pass_k.
passFrame == <<builderVars, harnessVars, trailCore, answer, trackerVars, convVars, calls, data>>

RECURSIVE Factorial(_)
Factorial(n) == IF n = 0 THEN 1 ELSE n * Factorial(n - 1)

\* math.comb for 0 <= n, 0 <= k: zero when k > n
comb(n, k) == IF k > n THEN 0 ELSE Factorial(n) \div (Factorial(k) * Factorial(n - k))

\* A float is kept as the exact fraction num/den; den = 0 stands for the
\* ZeroDivisionError of a division by comb(n, k) = 0.
Frac(a, b) == [num |-> a, den |-> b]

\* Variant that returns the failure probability instead of its complement.
pass_k_failing(n, c, k) ==
    IF n - c < k THEN Frac(1, 1) ELSE Frac(comb(n - c, k), comb(n, k))

\* pass_k: 1.0 if n - c < k, else 1.0 - comb(n - c, k) / comb(n, k)
pass_k(n, c, k) ==
    IF n - c < k THEN Frac(1, 1) ELSE Frac(comb(n, k) - comb(n - c, k), comb(n, k))

\* c = sum(trail.outcome.root for trail in is_pass)
RECURSIVE SumPass(_)
SumPass(ps) == IF ps = <<>> THEN 0 ELSE (IF Head(ps) THEN 1 ELSE 0) + SumPass(Tail(ps))

\* pass_k_metric(is_pass, k)
pass_k_metric(ps, k) == pass_k(Len(ps), SumPass(ps), k)

\* The outcomes of the is_pass grader over the trails of a task, and k.
InitPassK ==
    /\ InitBuilder
    /\ InitHarnessIdle
    /\ answer = None
    /\ tpc = "idle" /\ sandbox = None /\ builds = 0 /\ sending = <<>> /\ prompts = 0
    /\ promptKind = "static" /\ concurrentGrade = FALSE /\ gpc = <<>>
    /\ gradeCancelled = FALSE /\ outcomes = <<>> /\ trailResult = None /\ graderTrails = <<>>
    /\ tracker = None /\ toolCall = <<>> /\ calls = 1 /\ data = <<>>
    /\ buffer = None /\ bufOut = <<>> /\ oai = None /\ oaiOut = <<>>
    /\ \E ps \in UNION {[1..n -> BOOLEAN] : n \in 0..MaxSamples}, k \in 1..MaxK :
          pk = [is_pass |-> ps, k |-> k]
    /\ pkOut = <<>>

\* return MetricValue(root=pass_k(n=n, c=c, k=k))
ComputePassK ==
    /\ pkOut = <<>>
    /\ pkOut' = <<pass_k_metric(pk.is_pass, pk.k)>>
    /\ UNCHANGED <<passFrame, pk>>

NextPassK == ComputePassK

SpecPassK == InitPassK /\ [][NextPassK]_vars

\* The binomial coefficient by Pascal's rule.
RECURSIVE Binomial(_, _)
Binomial(n, k) ==
    IF k = 0 THEN 1
    ELSE IF n = 0 THEN 0
    ELSE Binomial(n - 1, k - 1) + Binomial(n - 1, k)

\* C21: pass@k. For n trials with c correct the value is 1 when n - c < k and
\* 1 - C(n-c, k)/C(n, k) otherwise; it lies in [0, 1]; n = 5, c = 3, k = 2
\* gives 0.9.
C21_PassK ==
    pkOut # <<>> =>
        LET n == Len(pk.is_pass)
            c == Cardinality({i \in 1..n : pk.is_pass[i]})
            k == pk.k
            r == pkOut[1]
        IN /\ r.den > 0
           /\ (n - c < k) => (r.num = r.den)
           /\ (n - c >= k) =>
                 (r.num * Binomial(n, k) = (Binomial(n, k) - Binomial(n - c, k)) * r.den)
           /\ 0 <= r.num /\ r.num <= r.den
           /\ (n = 5 /\ c = 3 /\ k = 2) => (r.num * 10 = 9 * r.den)

C21_Witness ==
    /\ pkOut # <<>>
    /\ pk = [is_pass |-> <<TRUE, FALSE, TRUE, FALSE, TRUE>>, k |-> 2]
    /\ pkOut[1].num * 10 = 9 * pkOut[1].den

\* ---------------------------------------------------------------------------
\* Harness.run called again on the same Harness
\* ---------------------------------------------------------------------------

MaxCalls == 2

\* run() again, after the previous call returned or raised: the tasks are loaded
\* and the trails started anew; self._results is a field set once by the
\* constructor and no statement of run() clears it.
Rerun ==
    /\ phase \in {"returned", "raised"}
    /\ calls < MaxCalls
    /\ calls' = calls + 1
    /\ pc' = [tr \in Trails(trail_count) |-> "waiting"]
    /\ tgCancelled' = FALSE
    /\ phase' = "trails"
    /\ logged' = <<>>
    /\ aggpc' = [t \in TaskSet |-> "pending"]
    /\ aggCancelled' = FALSE
    /\ taskResults' = <<>>
    /\ harnessResult' = <<>>
    /\ UNCHANGED <<builderVars, concurrency, trail_count, sem, results,
                   trailCore, answer, metricVars, trackerVars, convVars, data>>

NextRerun ==
    \/ NextHarness
    \/ Rerun

SpecRerun == InitRun /\ [][NextRerun]_vars

\* C22: run-scoped state. The TaskResults a call of run() returns hold only the
\* TrailResults of trails that completed in that call: as many as its completed
\* trails of the task, never more than trail_count.
C22_RunScoped ==
    phase = "returned" =>
        \A i \in 1..Len(harnessResult) :
            /\ Len(harnessResult[i].trails) <= trail_count
            /\ Len(harnessResult[i].trails) = Cardinality(Done(harnessResult[i].task))

\* ---------------------------------------------------------------------------
\* ToolCallBuilder on its own, with all its fields
\* ---------------------------------------------------------------------------

MaxToolCalls == 2

\* All variables but those of the tracker.
trackerFrame == <<builderVars, harnessVars, trailCore, answer, metricVars, convVars,
                  calls, data>>

TcStatuses == {None, "pending", "in_progress", "completed", "failed"}

\* The content field of an update: unset, or a list of acp content items.
AcpContents == {None, <<>>, <<[cls |-> "acp", v |-> "x"]>>, <<[cls |-> "acp", v |-> "y"]>>}

ToolCallStarts ==
    [id : {"t1"}, title : {"ls"}, kind : {None, "read"}, status : TcStatuses, content : AcpContents]

ToolCallProgresses ==
    [id : {"t1"}, title : {None, "cat"}, kind : {None, "edit"}, status : TcStatuses,
     content : AcpContents]

\* from_tool_call_content: the acp item as an item of this package's schema
from_tool_call_content(c) == [cls |-> "oa", v |-> c.v]

ConvertContent(cs) == [n \in 1..Len(cs) |-> from_tool_call_content(cs[n])]

\* ToolCallBuilder.from_start
from_start(u) ==
    [tool_call_id |-> u.id,
     kind |-> u.kind,
     title |-> u.title,
     status |-> u.status,
     content |-> IF u.content # None THEN ConvertContent(u.content) ELSE <<>>]

\* Variant of apply() that adds a present content list to the stored one.
apply_extending(t, u) ==
    [tool_call_id |-> t.tool_call_id,
     kind |-> IF u.kind # None THEN u.kind ELSE t.kind,
     title |-> IF u.title # None THEN u.title ELSE t.title,
     status |-> IF u.status # None THEN u.status ELSE t.status,
     content |-> IF u.content # None THEN t.content \o ConvertContent(u.content) ELSE t.content]

\* ToolCallBuilder.apply
apply(t, u) ==
    [tool_call_id |-> t.tool_call_id,
     kind |-> IF u.kind # None THEN u.kind ELSE t.kind,
     title |-> IF u.title # None THEN u.title ELSE t.title,
     status |-> IF u.status # None THEN u.status ELSE t.status,
     content |-> IF u.content # None THEN ConvertContent(u.content) ELSE t.content]

\* Variant of build() that marks the tracker completed.
build_closing(t) ==
    [self |-> [t EXCEPT !.status = "completed"],
     result |-> [tool_call_id |-> t.tool_call_id, title |-> t.title, kind |-> t.kind,
                 content |-> t.content, status |-> t.status]]

\* ToolCallBuilder.build: the tracker after the call and the ToolCall returned
build(t) ==
    [self |-> t,
     result |-> [tool_call_id |-> t.tool_call_id, title |-> t.title, kind |-> t.kind,
                 content |-> t.content, status |-> t.status]]

\* Variant of is_complete that only knows "completed".
is_complete_done(t) == t.status = "completed"

\* ToolCallBuilder.is_complete
is_complete(t) == t.status \in {"completed", "failed"}

\* tracker.self holds the fields, tracker.arg the update of the last call.
InitTracker ==
    /\ InitBuilder
    /\ InitHarnessIdle
    /\ answer = None
    /\ tpc = "idle" /\ sandbox = None /\ builds = 0 /\ sending = <<>> /\ prompts = 0
    /\ promptKind = "static" /\ concurrentGrade = FALSE /\ gpc = <<>>
    /\ gradeCancelled = FALSE /\ outcomes = <<>> /\ trailResult = None /\ graderTrails = <<>>
    /\ pk = None /\ pkOut = <<>> /\ calls = 1 /\ data = <<>>
    /\ buffer = None /\ bufOut = <<>> /\ oai = None /\ oaiOut = <<>>
    /\ \E u \in ToolCallStarts : tracker = [self |-> from_start(u), arg |-> u]
    /\ toolCall = <<>>

\* tracker.apply(progress)
ApplyProgress ==
    /\ \E u \in ToolCallProgresses : tracker' = [self |-> apply(tracker.self, u), arg |-> u]
    /\ toolCall' = <<>>
    /\ UNCHANGED trackerFrame

\* tracker.build(), once more since the last apply()
BuildTracker ==
    /\ Len(toolCall) < MaxToolCalls
    /\ tracker' = [tracker EXCEPT !.self = build(tracker.self).self]
    /\ toolCall' = Append(toolCall, build(tracker.self).result)
    /\ UNCHANGED trackerFrame

NextTracker ==
    \/ ApplyProgress
    \/ BuildTracker

SpecTracker == InitTracker /\ [][NextTracker]_vars

\* C23: is_complete. The tracker is complete exactly when its status is
\* completed or failed: pending, in_progress and an unset status are not
\* complete, and a call that sets the status decides it.
C23_IsComplete ==
    LET t == tracker.self IN
    /\ t.status \in {"completed", "failed"} => is_complete(t)
    /\ t.status \in {None, "pending", "in_progress"} => ~is_complete(t)
    /\ tracker.arg.status # None =>
          (is_complete(t) <=> tracker.arg.status \in {"completed", "failed"})

C23_Witness ==
    /\ tracker.arg.title # "ls"
    /\ tracker.arg.status = None
    /\ tracker.self.status = "failed"
    /\ is_complete(tracker.self)

IsTrackerBuild == Len(toolCall') = Len(toolCall) + 1

C25_ApplyStep ==
    ~IsTrackerBuild =>
        LET t == tracker.self
            n == tracker'.self
            u == tracker'.arg
        IN /\ n.tool_call_id = t.tool_call_id
           /\ n.kind = (IF u.kind = None THEN t.kind ELSE u.kind)
           /\ n.title = (IF u.title = None THEN t.title ELSE u.title)
           /\ n.status = (IF u.status = None THEN t.status ELSE u.status)
           /\ u.content = None => n.content = t.content
           /\ u.content # None =>
                 /\ Len(n.content) = Len(u.content)
                 /\ \A i \in 1..Len(n.content) : n.content[i].v = u.content[i].v

\* C25: apply(progress) overwrites only the fields the progress sets; every
\* unset field and the tool_call_id keep their value; a present content list
\* replaces the stored content and is never appended to it.
C25_ApplyFrame == [][C25_ApplyStep]_vars

C25_Witness ==
    /\ tracker.arg.title # "ls"
    /\ tracker.arg.content # None /\ Len(tracker.arg.content) = 1
    /\ tracker.arg.kind = None /\ tracker.arg.title = None /\ tracker.arg.status = None
    /\ tracker.self.kind = "read" /\ tracker.self.title = "cat"
    /\ tracker.self.status = "in_progress"
    /\ tracker.self.content = <<[cls |-> "oa", v |-> "y"]>>

C26_BuildStep == IsTrackerBuild => tracker' = tracker

C26_Results ==
    \A i \in 1..Len(toolCall) :
        /\ toolCall[i] = toolCall[1]
        /\ toolCall[i].tool_call_id = tracker.self.tool_call_id
        /\ toolCall[i].title = tracker.self.title
        /\ toolCall[i].kind = tracker.self.kind
        /\ toolCall[i].status = tracker.self.status
        /\ toolCall[i].content = tracker.self.content

\* C26: build() is idempotent. It leaves the tracker as it is, the calls made
\* without an apply() in between return equal ToolCalls holding the tracker's
\* current fields, and it works on a tracker that is not complete.
C26_BuildIdempotent ==
    /\ []C26_Results
    /\ [][C26_BuildStep]_vars

C26_Witness ==
    /\ Len(toolCall) = 2
    /\ ~is_complete(tracker.self)
    /\ tracker.self.status = "in_progress"
    /\ tracker.arg.title # "ls"

\* ---------------------------------------------------------------------------
\* TrajectoryBuilder.build_data: the raw update log
\* ---------------------------------------------------------------------------

MaxLog == 3
MaxData == 1

\* Variant of build_data() that hands out the builder's own list.
build_data_shared(s) == [shared |-> TRUE, updates |-> <<>>]

\* TrajectoryData(updates=list(self._updates)): a list of its own
build_data(s) == [shared |-> FALSE, updates |-> s.updates]

\* What a TrajectoryData shows when read: its own list, or the builder's.
ReadData(d, log) == IF d.shared THEN log ELSE d.updates

\* builder.append(update)
LogAppend ==
    /\ ~raised
    /\ Len(updates) < MaxLog
    /\ \E u \in SessionUpdate : SetBuilder(AppendUpdate(Builder, u))
    /\ UNCHANGED <<built, nbuilds, harnessVars, trailCore, answer, metricVars, trackerVars, convVars,
                   calls, data>>

\* builder.build_data()
DoBuildData ==
    /\ Len(data) < MaxData
    /\ data' = Append(data, build_data(Builder))
    /\ UNCHANGED <<builderVars, harnessVars, trailCore, answer, metricVars, trackerVars, convVars, calls>>

NextData ==
    \/ LogAppend
    \/ DoBuildData

SpecData == Init /\ [][NextData]_vars

C24_Step ==
    /\ Len(data') = Len(data) + 1 =>
          /\ ReadData(data'[Len(data')], updates') = updates
          /\ updates' = updates
    /\ IsAppendStep =>
          /\ SubSeq(updates', 1, Len(updates)) = updates
          /\ Appended \in SessionUpdate
          /\ \A i \in 1..Len(data) : ReadData(data'[i], updates') = ReadData(data[i], updates)

\* C24: raw log retention. build_data() returns the updates passed to append
\* so far, in arrival order, ignored kinds included; what it returned is not
\* altered by later appends.
C24_RawLog == [][C24_Step]_vars

C24_Witness ==
    /\ Len(data) = 1
    /\ ReadData(data[1], updates) = <<Ignored, Chunk("agent", "a")>>
    /\ Len(updates) = 3

\* ---------------------------------------------------------------------------
\* ToolCallStart and the ignored kinds
\* ---------------------------------------------------------------------------

C27_StartStep ==
    (IsAppendStep /\ Appended.type = "tool_call") =>
        LET n == Len(groups) IN
        /\ Len(groups') = n
        /\ groups'[n] = groups[n] \o OtherOpen(1, buffers, None)
        /\ \A i \in 1..(n - 1) : groups'[i] = groups[i]
        /\ \A k \in KindSet : buffers'[k] = <<>>
        /\ \E m \in 1..Len(tool_calls') :
              /\ tool_calls'[m].id = Appended.id
              /\ tool_calls'[m].title = Appended.title
              /\ tool_calls'[m].status = Appended.status
        /\ \A m \in 1..Len(tool_calls) :
              tool_calls[m].id # Appended.id =>
                  \E m2 \in 1..Len(tool_calls') : tool_calls'[m2] = tool_calls[m]

\* C27: ToolCallStart. The three content buffers are flushed into the current
\* group whatever they hold, so they are empty afterwards, and a tracker is
\* opened for the id; no ToolCall message is added and no group is opened.
C27_ToolCallStart == [][C27_StartStep]_vars

C27_Witness ==
    /\ nbuilds = 0
    /\ updates = <<Chunk("thought", "a"), Chunk("thought", "b"), Start("t2", "in_progress")>>
    /\ groups = << <<AgentThought(<<"a", "b">>)>> >>
    /\ Len(tool_calls) = 1

\* The log without the updates of ignored kinds.
Matched(us) == SelectSeq(us, LAMBDA u : u.type \in KindSet \cup {"tool_call", "tool_call_update"})

C28_IgnoredStep ==
    (IsAppendStep /\ Appended = Ignored) =>
        /\ groups' = groups
        /\ buffers' = buffers
        /\ tool_calls' = tool_calls
        /\ raised' = raised
        /\ updates' = Append(updates, Ignored)

C28_SameTrajectory ==
    (nbuilds = 1 /\ ~raised) => built = BuildFrom(Matched(updates))

\* C28: ignored kinds. An update of an ignored kind changes no group, buffer or
\* tracker and is only added to the raw log; the Trajectory the first build()
\* returns for a log is the one built from the log without its ignored updates.
C28_IgnoredKinds ==
    /\ []C28_SameTrajectory
    /\ [][C28_IgnoredStep]_vars

C28_Witness ==
    /\ nbuilds = 1
    /\ updates = <<Chunk("agent", "a"), Ignored, Chunk("agent", "b")>>
    /\ built = << <<AgentMessage(<<"a", "b">>)>> >>

\* ---------------------------------------------------------------------------
\* The prompting loop
\* ---------------------------------------------------------------------------

C29_Answer ==
    /\ tpc = "prompting" => answer = "prompt"
    /\ tpc \in {"traj", "grade", "returned"} => answer \in {"none", "empty"}

C29_Step ==
    /\ prompts' # prompts =>
          /\ tpc = "loop" /\ tpc' = "prompting"
          /\ answer' = "prompt"
          /\ prompts' = prompts + 1
    /\ (tpc = "loop" /\ answer' = "prompt" /\ tpc' # "raised" /\ tpc' # "cancelled") =>
          prompts' = prompts + 1
    /\ tpc # "loop" => answer' = answer

\* C29: prompting loop. A prompt is asked for only when no prompt is in flight,
\* every non-empty prompt obtained is sent, and the first empty or absent
\* prompt ends the loop: nothing is sent after it.
C29_PromptLoop ==
    /\ []C29_Answer
    /\ [][C29_Step]_vars

C29_Witness ==
    /\ tpc = "returned"
    /\ prompts = 2
    /\ answer = "empty"

C30_NoBlockedUpdate ==
    (promptKind = "static" /\ tpc \in {"loop", "traj", "grade", "returned"}) => sending = <<>>

C30_LoopEnds ==
    (promptKind = "static" /\ tpc = "loop" /\ prompts >= 1) => tpc' # "prompting"

\* C30: trial termination. With a static prompt and collaborators that answer,
\* no delivered update is still held in session_update once its prompt has been
\* answered, and the loop does not send the prompt again after the answer, so
\* the trail goes on to grading and returns.
C30_Termination ==
    /\ []C30_NoBlockedUpdate
    /\ [][C30_LoopEnds]_vars

\* ---------------------------------------------------------------------------
\* Completion of Harness.run
\* ---------------------------------------------------------------------------

\* While trails of a fault-free call are left, one is inside runner.run() or a
\* permit is free for a waiting one.
C31_NoStarvation ==
    (phase = "trails" /\ ~tgCancelled /\ ~AllTrailsEnded) =>
        \/ Active # {}
        \/ SemFree(sem) /\ \E tr \in DOMAIN pc : pc[tr] = "waiting"

\* C31: harness completion. With concurrency >= 1 and every trail of the call
\* completing without fault, no trail is left waiting for the semaphore while
\* no permit is held, and the TaskResult of every loaded task returned by the
\* call holds exactly trail_count TrailResults.
C31_Completion ==
    /\ C31_NoStarvation
    /\ (phase = "returned" /\ \A tr \in DOMAIN pc : pc[tr] = "done") =>
          /\ Len(harnessResult) = Len(Tasks)
          /\ \A i \in 1..Len(harnessResult) : Len(harnessResult[i].trails) = trail_count

\* ---------------------------------------------------------------------------
\* The trails of one call of run(), each with its own sandbox
\* ---------------------------------------------------------------------------

\* Variables no step of a trail writes here.
sandboxesFrame == <<concurrency, trail_count, phase, logged, aggpc, aggCancelled,
                    taskResults, harnessResult, tpc, builds, sending, prompts,
                    promptKind, concurrentGrade, gpc, gradeCancelled, outcomes,
                    trailResult, graderTrails, answer, metricVars, trackerVars, convVars,
                    calls, data>>

\* run() has started every (task, trail_idx) child; `sandbox` holds the state of
\* the sandbox of every trail.
InitSandboxes ==
    /\ InitBuilder
    /\ InitHarness
    /\ answer = None
    /\ InitRestIdle
    /\ tpc = "idle"
    /\ sandbox = [tr \in Trails(trail_count) |-> None]
    /\ builds = 0
    /\ sending = <<>>
    /\ prompts = 0
    /\ promptKind = "static"
    /\ concurrentGrade = FALSE
    /\ gpc = <<>>
    /\ gradeCancelled = FALSE
    /\ outcomes = <<>>
    /\ trailResult = None
    /\ graderTrails = <<>>

\* with_sem.wrapper: `async with sem` is entered, _run_trail is called next.
SemEnter(tr) ==
    /\ pc[tr] = "waiting" /\ ~tgCancelled
    /\ SemFree(sem)
    /\ sem' = SemAcquire(sem)
    /\ pc' = [pc EXCEPT ![tr] = "start"]
    /\ UNCHANGED <<builderVars, sandboxesFrame, sandbox, results, tgCancelled>>

\* sandbox = await self.sandbox_builder.build(...): returns, or raises; an
\* exception leaves run(), _run_trail and `async with sem`, and cancels the
\* scope of run()'s task group.
SandboxBuild(tr) ==
    /\ pc[tr] = "start" /\ ~tgCancelled
    /\ \E ok \in BOOLEAN :
          IF ok
          THEN /\ sandbox' = [sandbox EXCEPT ![tr] = "built"]
               /\ pc' = [pc EXCEPT ![tr] = "enter"]
               /\ UNCHANGED <<sem, tgCancelled>>
          ELSE /\ sandbox' = sandbox
               /\ pc' = [pc EXCEPT ![tr] = "failed"]
               /\ sem' = SemRelease(sem)
               /\ tgCancelled' = TRUE
    /\ UNCHANGED <<builderVars, sandboxesFrame, results>>

\* async with sandbox.run(): start_container, before the try block.
SandboxStart(tr) ==
    /\ pc[tr] = "enter" /\ ~tgCancelled
    /\ \E ok \in BOOLEAN :
          IF ok
          THEN /\ sandbox' = [sandbox EXCEPT ![tr] = "running"]
               /\ pc' = [pc EXCEPT ![tr] = "inside"]
               /\ UNCHANGED <<sem, tgCancelled>>
          ELSE /\ sandbox' = sandbox
               /\ pc' = [pc EXCEPT ![tr] = "failed"]
               /\ sem' = SemRelease(sem)
               /\ tgCancelled' = TRUE
    /\ UNCHANGED <<builderVars, sandboxesFrame, results>>

\* The body of `async with sandbox.run()` ends: by the return of the
\* TrailResult or by an exception; the finally block of Sandbox.run runs.
TrailBody(tr) ==
    /\ pc[tr] = "inside" /\ ~tgCancelled
    /\ sandbox' = [sandbox EXCEPT ![tr] = Teardown(@)]
    /\ \E ok \in BOOLEAN :
          IF ok
          THEN /\ pc' = [pc EXCEPT ![tr] = "returned"]
               /\ UNCHANGED <<sem, tgCancelled>>
          ELSE /\ pc' = [pc EXCEPT ![tr] = "failed"]
               /\ sem' = SemRelease(sem)
               /\ tgCancelled' = TRUE
    /\ UNCHANGED <<builderVars, sandboxesFrame, results>>

\* _run_trail after runner.run(): the result is appended, then `async with sem`
\* is left; there is no await in between.
AppendResult(tr) ==
    /\ pc[tr] = "returned"
    /\ results' = StoreResult(results, tr)
    /\ sem' = SemRelease(sem)
    /\ pc' = [pc EXCEPT ![tr] = "done"]
    /\ UNCHANGED <<builderVars, sandboxesFrame, sandbox, tgCancelled>>

\* A child waiting in sem.acquire() when the scope is cancelled.
CancelWaitingTrail(tr) ==
    /\ pc[tr] = "waiting" /\ tgCancelled
    /\ pc' = [pc EXCEPT ![tr] = "cancelled"]
    /\ UNCHANGED <<builderVars, sandboxesFrame, sandbox, results, sem, tgCancelled>>

\* A child inside runner.run() when the scope is cancelled: it ends at its next
\* await and leaves `async with sem`; the awaits of the finally block of
\* Sandbox.run are not shielded, so a running container may stay up.
CancelRunningTrail(tr) ==
    /\ pc[tr] \in {"start", "enter", "inside"} /\ tgCancelled
    /\ pc' = [pc EXCEPT ![tr] = "cancelled"]
    /\ sem' = SemRelease(sem)
    /\ \E sb \in (IF sandbox[tr] = "running" THEN {"running", Teardown(sandbox[tr])}
                  ELSE {sandbox[tr]}) :
          sandbox' = [sandbox EXCEPT ![tr] = sb]
    /\ UNCHANGED <<builderVars, sandboxesFrame, results, tgCancelled>>

NextSandboxes ==
    \/ \E tr \in DOMAIN pc : SemEnter(tr)
    \/ \E tr \in DOMAIN pc : SandboxBuild(tr)
    \/ \E tr \in DOMAIN pc : SandboxStart(tr)
    \/ \E tr \in DOMAIN pc : TrailBody(tr)
    \/ \E tr \in DOMAIN pc : AppendResult(tr)
    \/ \E tr \in DOMAIN pc : CancelWaitingTrail(tr)
    \/ \E tr \in DOMAIN pc : CancelRunningTrail(tr)

SpecSandboxes == InitSandboxes /\ [][NextSandboxes]_vars

\* The trails between entering and leaving `async with sem`.
Holding == {tr \in DOMAIN pc : pc[tr] \in {"start", "enter", "inside", "returned"}}

\* The sandboxes under construction, or running and not yet torn down.
LiveSandboxes == {tr \in DOMAIN pc : pc[tr] = "start" \/ sandbox[tr] = "running"}

C32_Bound == Cardinality(LiveSandboxes) <= concurrency

\* C32: permit scope. Every trail whose sandbox is under construction or
\* running holds a permit, the permit is given back only with or after the
\* teardown and the result append, so the sandboxes under construction or
\* running never outnumber the permits.
C32_PermitScope ==
    /\ concurrency - sem = Cardinality(Holding)
    /\ LiveSandboxes \subseteq Holding
    /\ \A tr \in DOMAIN pc : pc[tr] = "done" =>
          sandbox[tr] = "stopped" /\ \E n \in 1..Len(results[tr[1]]) : results[tr[1]][n] = TrailResult(tr)
    /\ C32_Bound

\* ---------------------------------------------------------------------------
\* Grading inside the trail
\* ---------------------------------------------------------------------------

\* While graders can run the loop has ended, the sandbox is up and the
\* trajectory of the context has been built.
C33_GradePhase ==
    /\ tpc = "grade" => sandbox = "running" /\ ~Truthy(answer) /\ nbuilds >= 1
    /\ Running # {} => tpc = "grade"

C33_Step ==
    \* a grader is entered in the grading phase only
    /\ \A g \in GraderSet :
          (gpc[g] = "pending" /\ gpc'[g] = "running") =>
              tpc = "grade" /\ tpc' = "grade" /\ sandbox' = "running"
    \* the context holds the trajectory built when the loop has ended
    /\ (tpc = "traj" /\ tpc' = "grade") =>
          built' = BuildTrajectory(Builder) /\ prompts' = prompts
    \* and it is the same for every grader: nothing rebuilds it, nothing is sent
    /\ tpc = "grade" =>
          built' = built /\ nbuilds' = nbuilds /\ prompts' = prompts /\ updates' = updates
    \* the teardown starts when no grader is left running
    /\ (tpc = "grade" /\ sandbox' # sandbox) => Running' = {}

\* C33: grading window. Every grader is entered after the prompting loop has
\* ended and ends before the teardown of the sandbox starts, with sequential
\* and with concurrent grading, and all graders get the one context made from
\* the trajectory built after the last prompt.
C33_GradingWindow ==
    /\ []C33_GradePhase
    /\ [][C33_Step]_vars

C33_Witness ==
    /\ tpc = "grade"
    /\ concurrentGrade
    /\ prompts = 2
    /\ gpc["g1"] = "running"
    /\ gpc["g2"] = "done"

\* ---------------------------------------------------------------------------
\* Tool calls after their completion
\* ---------------------------------------------------------------------------

\* What a log says about a tool-call id: "never" started, "open" or "closed"
\* by a ToolCallProgress, and the status the call had last.
RECURSIVE LogState(_, _, _, _)
LogState(us, n, i, st) ==
    IF n > Len(us) THEN st
    ELSE LET u == us[n] IN
         IF u.id # i THEN LogState(us, n + 1, i, st)
         ELSE IF u.type = "tool_call"
              THEN LogState(us, n + 1, i, [state |-> "open", status |-> u.status])
              ELSE IF st.state # "open" THEN st
                   ELSE LET s2 == IF u.status # None THEN u.status ELSE st.status IN
                        LogState(us, n + 1, i,
                                 [state |-> IF s2 \in {"completed", "failed"} THEN "closed" ELSE "open",
                                  status |-> s2])

LogOf(us, i) == LogState(us, 1, i, [state |-> "never", status |-> None])

\* The tracker of an id exists exactly while the log leaves the id open.
C34_Discarded ==
    ~raised =>
        \A i \in ToolCallIds : (FindTracker(tool_calls, i) # 0) <=> (LogOf(updates, i).state = "open")

C34_Step ==
    \* a progress update for a closed id raises and changes nothing
    /\ (/\ IsAppendStep
        /\ Appended.type = "tool_call_update"
        /\ LogOf(updates, Appended.id).state = "closed") =>
          /\ raised'
          /\ groups' = groups
          /\ tool_calls' = tool_calls
          /\ buffers' = buffers
    \* a ToolCall placed by a completion lies in a closed group: no later step
    \* changes, moves or removes it
    /\ CompletesToolCall =>
          /\ FindTracker(tool_calls', Appended.id) = 0
          /\ groups'[Len(groups)][Len(groups'[Len(groups)])].id = Appended.id
          /\ groups'[Len(groups)][Len(groups'[Len(groups)])].status \in {"completed", "failed"}
    /\ \A n \in 1..(Len(groups) - 1) : groups'[n] = groups[n]

\* C34: a completed tool call is closed for good. The ToolCallProgress that
\* completes or fails a tool call discards its tracker; a later ToolCallProgress
\* for that id, with no ToolCallStart for it in between, raises the unknown-id
\* fault; the ToolCall placed in the trajectory is changed by no later update.
C34_ClosedForGood ==
    /\ []C34_Discarded
    /\ [][C34_Step]_vars

C34_Witness ==
    /\ raised
    /\ Len(updates) = 4
    /\ updates[1] = Start("t1", "in_progress")
    /\ updates[2] = Progress("t1", None, "failed")
    /\ updates[3].type = "agent"
    /\ updates[4] = Progress("t1", None, "completed")
    /\ groups[1] = <<ToolCall("t1", "ls", "failed")>>

\* ---------------------------------------------------------------------------
\* One ToolCall per ToolCallStart
\* ---------------------------------------------------------------------------

\* No ToolCallStart of the log arrives for an id the log before it leaves open.
NoRestart(us) ==
    \A n \in 1..Len(us) :
        us[n].type = "tool_call" => LogOf(SubSeq(us, 1, n - 1), us[n].id).state # "open"

StartsOf(us, i) == Len(SelectSeq(us, LAMBDA u : u.type = "tool_call" /\ u.id = i))

ToolCallsOf(traj, i) == Len(SelectSeq(Flatten(traj), LAMBDA m : m.kind = "tool_call" /\ m.id = i))

\* C35: one ToolCall per start. For a valid log in which no ToolCallStart
\* arrives for an id that is still open, the Trajectory of the first build()
\* holds, for every id, as many ToolCall messages with that id as the log has
\* ToolCallStarts for it: one per start, none without a start.
C35_OnePerStart ==
    (nbuilds = 1 /\ ~raised /\ NoRestart(updates)) =>
        \A i \in ToolCallIds : ToolCallsOf(built, i) = StartsOf(updates, i)

C35_Witness ==
    /\ nbuilds = 1
    /\ NoRestart(updates)
    /\ updates = <<Start("t1", "in_progress"), Progress("t1", None, "completed"),
                   Start("t1", "in_progress"), Start("t2", "completed")>>
    /\ ToolCallsOf(built, "t1") = 2
    /\ ToolCallsOf(built, "t2") = 1

\* ---------------------------------------------------------------------------
\* Where the groups of a Trajectory end
\* ---------------------------------------------------------------------------

Closed(m) == m.kind = "tool_call" /\ m.status \in {"completed", "failed"}

\* Every group but the last ends with a completed or failed ToolCall.
C36_GroupsEndClosed ==
    \A n \in 1..(Len(built) - 1) : Closed(built[n][Len(built[n])])

\* A completed or failed ToolCall is the last message of its group.
C36_ClosedIsLast ==
    \A n \in 1..Len(built) : \A j \in 1..(Len(built[n]) - 1) : ~Closed(built[n][j])

\* C36: group ends. In the Trajectory of the first build() over a valid log,
\* every group except possibly the last ends with a ToolCall that is completed
\* or failed, and every completed or failed ToolCall is the last message of
\* its group.
C36_GroupEnds ==
    (nbuilds = 1 /\ ~raised) => C36_GroupsEndClosed /\ C36_ClosedIsLast

\* ---------------------------------------------------------------------------
\* What the raw log records
\* ---------------------------------------------------------------------------

\* build_from over a log: whether one of its append() calls raises.
ReplayRaises(us) == AppendAll(NewBuilder, us, 1).raised

\* C37: the log replays. The raw log holds the updates whose append()
\* returned, not the one whose append() raised, so build_from over the log a
\* build_data() call returned never raises.
C37_LogReplays ==
    /\ ~ReplayRaises(updates)
    /\ \A n \in 1..Len(data) : ~ReplayRaises(ReadData(data[n], updates))

\* ---------------------------------------------------------------------------
\* The content buffers
\* ---------------------------------------------------------------------------

\* The kinds whose buffer holds chunks.
OpenKinds == {k \in KindSet : buffers[k] # <<>>}

\* C39: one open buffer. After any sequence of append() calls at most one of
\* the three content buffers holds chunks, and none does right after a
\* ToolCallStart, so a flush adds at most one message and the order in which
\* it visits the buffers decides nothing.
C39_OneOpenBuffer ==
    /\ Cardinality(OpenKinds) <= 1
    /\ Len(OtherOpen(1, buffers, None)) <= 1
    /\ (updates # <<>> /\ updates[Len(updates)].type = "tool_call") => OpenKinds = {}

C39_Witness ==
    /\ nbuilds = 0
    /\ Len(updates) = 4
    /\ updates[1].type = "user"
    /\ updates[2].type = "thought"
    /\ updates[3].type = "tool_call"
    /\ updates[4].type = "agent"
    /\ OpenKinds = {"agent"}
    /\ Len(groups[1]) = 2

\* ---------------------------------------------------------------------------
\* MessageBuffer on its own
\* ---------------------------------------------------------------------------

MaxBufferCalls == 4

bufferFrame == <<builderVars, harnessVars, trailCore, answer, metricVars, trackerVars,
                 calls, data, oai, oaiOut>>

\* MessageBuffer.add
add(b, block) == [b EXCEPT !.chunks = BufferAdd(@, block)]

\* MessageBuffer.peek: the value returned, an empty list standing for None.
peek(b) == IF b.chunks # <<>> THEN <<MessageOf(b.factory, b.chunks)>> ELSE <<>>

\* Variant of flush() that keeps the chunks.
flush_keeping(b) == [self |-> b, result |-> peek(b)]

\* MessageBuffer.flush: the buffer after the call and the value returned.
flush(b) ==
    IF b.chunks = <<>> THEN [self |-> b, result |-> <<>>]
    ELSE [self |-> [b EXCEPT !.chunks = <<>>], result |-> <<MessageOf(b.factory, b.chunks)>>]

\* A new MessageBuffer of one of the three factories.
InitBuffer ==
    /\ InitBuilder
    /\ InitHarnessIdle
    /\ answer = None
    /\ tpc = "idle" /\ sandbox = None /\ builds = 0 /\ sending = <<>> /\ prompts = 0
    /\ promptKind = "static" /\ concurrentGrade = FALSE /\ gpc = <<>>
    /\ gradeCancelled = FALSE /\ outcomes = <<>> /\ trailResult = None /\ graderTrails = <<>>
    /\ pk = None /\ pkOut = <<>> /\ tracker = None /\ toolCall = <<>>
    /\ calls = 1 /\ data = <<>> /\ oai = None /\ oaiOut = <<>>
    /\ \E k \in KindSet : buffer = [factory |-> k, chunks |-> <<>>]
    /\ bufOut = <<>>

\* buffer.add(block)
DoAdd ==
    /\ Len(bufOut) < MaxBufferCalls
    /\ \E c \in Contents :
          /\ buffer' = add(buffer, c)
          /\ bufOut' = Append(bufOut, [op |-> "add", arg |-> <<c>>, result |-> <<>>])
    /\ UNCHANGED bufferFrame

\* buffer.peek()
DoPeek ==
    /\ Len(bufOut) < MaxBufferCalls
    /\ buffer' = buffer
    /\ bufOut' = Append(bufOut, [op |-> "peek", arg |-> <<>>, result |-> peek(buffer)])
    /\ UNCHANGED bufferFrame

\* buffer.flush()
DoFlush ==
    /\ Len(bufOut) < MaxBufferCalls
    /\ buffer' = flush(buffer).self
    /\ bufOut' = Append(bufOut, [op |-> "flush", arg |-> <<>>, result |-> flush(buffer).result])
    /\ UNCHANGED bufferFrame

NextBuffer ==
    \/ DoAdd
    \/ DoPeek
    \/ DoFlush

SpecBuffer == InitBuffer /\ [][NextBuffer]_vars

\* The blocks added by the calls from position n on that no later flush() took.
RECURSIVE AddedSince(_, _, _)
AddedSince(log, n, acc) ==
    IF n > Len(log) THEN acc
    ELSE AddedSince(log, n + 1,
                    IF log[n].op = "add" THEN acc \o log[n].arg
                    ELSE IF log[n].op = "flush" THEN <<>> ELSE acc)

LastCall == bufOut'[Len(bufOut')]

C40_Step ==
    LET added == AddedSince(bufOut, 1, <<>>) IN
    /\ LastCall.op \in {"peek", "flush"} =>
          /\ added = <<>> => LastCall.result = <<>>
          /\ added # <<>> => LastCall.result = <<MessageOf(buffer.factory, added)>>
    /\ LastCall.op = "peek" => buffer' = buffer
    /\ LastCall.op = "flush" => buffer'.chunks = <<>>
    /\ (LastCall.op \in {"peek", "flush"} /\ bufOut # <<>> /\ bufOut[Len(bufOut)].op = "flush") =>
          LastCall.result = <<>>

\* C40: MessageBuffer. peek() and flush() return None on an empty buffer; on a
\* buffer with blocks peek() returns the Message of all blocks added, in the
\* order added, and changes nothing; flush() returns the same Message and
\* empties the buffer, so a peek() or flush() right after it returns None.
C40_MessageBuffer == [][C40_Step]_vars

C40_Witness ==
    /\ Len(bufOut) = 4
    /\ bufOut[1].op = "add" /\ bufOut[2].op = "add"
    /\ bufOut[3].op = "flush" /\ bufOut[3].result = <<MessageOf("agent", <<"a", "b">>)>>
    /\ bufOut[4].op = "peek" /\ bufOut[4].result = <<>>

\* ---------------------------------------------------------------------------
\* OpenAIBuilder
\* ---------------------------------------------------------------------------

MaxMessages == 3
MaxOpenAIBuilds == 2

openaiFrame == <<builderVars, harnessVars, trailCore, answer, metricVars, trackerVars,
                 calls, data, buffer, bufOut>>

\* The Messages appended: content messages with no, one and two text blocks,
\* and ToolCalls.
OpenAIMessages ==
    {UserMessage(<<"a">>), UserMessage(<<"a", "b">>), AgentMessage(<<>>), AgentMessage(<<"b">>),
     AgentThought(<<"a">>), ToolCall("t1", "ls", "completed"), ToolCall("t2", "ls", "in_progress")}

\* _compact_text_parts / _compact_user_parts over text parts: "" for no part,
\* the text for one, the list of parts otherwise.
compact_text_parts(parts) ==
    IF Len(parts) = 0 THEN [str |-> <<"">>, parts |-> <<>>]
    ELSE IF Len(parts) = 1 THEN [str |-> <<parts[1].text>>, parts |-> <<>>]
    ELSE [str |-> <<>>, parts |-> parts]

\* _content_to_assistant_message, and _content_to_user_message for text blocks:
\* one text part {"type": "text", "text": ...} per block, then compacted
content_to_message(content) ==
    compact_text_parts([n \in 1..Len(content) |-> [type |-> "text", text |-> content[n]]])

\* content=None of the message that carries a tool call
NoContent == [str |-> <<>>, parts |-> <<>>]

\* ChatCompletion*MessageParam: a dict with the keys given; `name` and
\* `tool_calls` are empty lists when the key is not set.
MessageParam(role, content, name, calls_) ==
    [role |-> role, content |-> content, name |-> name, tool_calls |-> calls_]

\* OpenAIBuilder._tool_call_message: one custom tool call named after the title
\* (_sanitize_tool_name leaves a title of letters as it is), with the ToolCall's
\* fields as its input.
tool_call_message(m) ==
    MessageParam("assistant", NoContent, <<>>,
                 << [id |-> m.id, type |-> "custom", name |-> m.title,
                     input |-> [tool_call_id |-> m.id, title |-> m.title, status |-> m.status]] >>)

\* Variant of _convert_message that converts every message, whatever the flags.
convert_message_all(self, m) ==
    CASE m.kind = "user" -> <<MessageParam("user", content_to_message(m.content), <<>>, <<>>)>>
      [] m.kind = "tool_call" -> <<tool_call_message(m)>>
      [] OTHER -> <<MessageParam("assistant", content_to_message(m.content), <<>>, <<>>)>>

\* OpenAIBuilder._convert_message: the message param in a list, the empty list
\* standing for None.
convert_message(self, m) ==
    CASE m.kind = "user" -> <<MessageParam("user", content_to_message(m.content), <<>>, <<>>)>>
      [] m.kind = "agent" -> <<MessageParam("assistant", content_to_message(m.content), <<>>, <<>>)>>
      [] m.kind = "thought" ->
            IF ~self.include_thoughts THEN <<>>
            ELSE IF self.thought_name # <<>>
                 THEN <<MessageParam("assistant", content_to_message(m.content), self.thought_name, <<>>)>>
                 ELSE <<MessageParam("assistant", content_to_message(m.content), <<>>, <<>>)>>
      [] m.kind = "tool_call" ->
            IF ~self.include_tool_calls THEN <<>> ELSE <<tool_call_message(m)>>
      [] OTHER -> <<>>

\* OpenAIBuilder(...): the flags are chosen, _messages is empty; `source` keeps
\* the Messages passed to append().
InitOpenAI ==
    /\ InitBuilder
    /\ InitHarnessIdle
    /\ answer = None
    /\ tpc = "idle" /\ sandbox = None /\ builds = 0 /\ sending = <<>> /\ prompts = 0
    /\ promptKind = "static" /\ concurrentGrade = FALSE /\ gpc = <<>>
    /\ gradeCancelled = FALSE /\ outcomes = <<>> /\ trailResult = None /\ graderTrails = <<>>
    /\ pk = None /\ pkOut = <<>> /\ tracker = None /\ toolCall = <<>>
    /\ calls = 1 /\ data = <<>> /\ buffer = None /\ bufOut = <<>>
    /\ \E it \in BOOLEAN, ic \in BOOLEAN, tn \in {<<>>, <<"thought">>} :
          oai = [include_thoughts |-> it, include_tool_calls |-> ic, thought_name |-> tn,
                 messages |-> <<>>, source |-> <<>>]
    /\ oaiOut = <<>>

\* OpenAIBuilder.append: a converted message is a dict with a role, never falsy.
OpenAIAppend ==
    /\ Len(oai.source) < MaxMessages
    /\ \E m \in OpenAIMessages :
          LET openai_message == convert_message(oai, m) IN
          oai' = [oai EXCEPT !.source = Append(@, m),
                             !.messages = IF openai_message # <<>>
                                          THEN Append(@, openai_message[1]) ELSE @]
    /\ UNCHANGED <<openaiFrame, oaiOut>>

\* OpenAIBuilder.build: return list(self._messages)
OpenAIBuild ==
    /\ Len(oaiOut) < MaxOpenAIBuilds
    /\ oaiOut' = Append(oaiOut, oai.messages)
    /\ UNCHANGED <<openaiFrame, oai>>

NextOpenAI ==
    \/ OpenAIAppend
    \/ OpenAIBuild

SpecOpenAI == InitOpenAI /\ [][NextOpenAI]_vars

Dropped(m) ==
    \/ m.kind = "thought" /\ ~oai.include_thoughts
    \/ m.kind = "tool_call" /\ ~oai.include_tool_calls

Kept(src) == SelectSeq(src, LAMBDA m : ~Dropped(m))

\* The output message is the one of this source Message.
Converted(out, m) ==
    /\ out.role = (IF m.kind = "user" THEN "user" ELSE "assistant")
    /\ m.kind = "tool_call" =>
          out.content = NoContent /\ Len(out.tool_calls) = 1 /\ out.tool_calls[1].id = m.id
    /\ m.kind # "tool_call" =>
          /\ out.tool_calls = <<>>
          /\ Len(m.content) = 0 => out.content.str = <<"">>
          /\ Len(m.content) = 1 => out.content.str = <<m.content[1]>>
          /\ Len(m.content) > 1 =>
                /\ Len(out.content.parts) = Len(m.content)
                /\ \A n \in 1..Len(m.content) : out.content.parts[n].text = m.content[n]
    /\ out.name = (IF m.kind = "thought" THEN oai.thought_name ELSE <<>>)

C38_Messages ==
    /\ Len(oai.messages) = Len(Kept(oai.source))
    /\ \A n \in 1..Len(oai.messages) : Converted(oai.messages[n], Kept(oai.source)[n])

C38_Step ==
    /\ Len(oaiOut') = Len(oaiOut) + 1 =>
          /\ oaiOut'[Len(oaiOut')] = oai.messages
          /\ oai' = oai
    /\ Len(oai'.source) = Len(oai.source) + 1 =>
          LET m == oai'.source[Len(oai'.source)] IN
          /\ Dropped(m) => oai'.messages = oai.messages
          /\ ~Dropped(m) =>
                /\ Len(oai'.messages) = Len(oai.messages) + 1
                /\ SubSeq(oai'.messages, 1, Len(oai.messages)) = oai.messages

\* C38: OpenAIBuilder. build() returns the converted messages in the order
\* their Messages were appended; an AgentThought is left out exactly when
\* include_thoughts is False, a ToolCall exactly when include_tool_calls is
\* False, every other Message gives exactly one output message; build() does
\* not clear what was accumulated.
C38_OpenAIBuilder ==
    /\ []C38_Messages
    /\ [][C38_Step]_vars

C38_Witness ==
    /\ ~oai.include_thoughts
    /\ oai.include_tool_calls
    /\ oai.source = <<UserMessage(<<"a", "b">>), AgentThought(<<"a">>), ToolCall("t1", "ls", "completed")>>
    /\ Len(oaiOut) = 2
    /\ Len(oaiOut[1]) = 1
    /\ Len(oaiOut[2]) = 2
    /\ oaiOut[2][2].tool_calls # <<>>

====
